---- MODULE Spec2Model ----
(***************************************************************************)
(* Model of the CSV upload analyzer (upload_analyzer.py) and of the HTTP   *)
(* handlers that drive the module-level analyzer (upload_web_server.py),   *)
(* and of the message generator (message_ai_generator.py), whose methods   *)
(* are applied to drawn arguments in specifications of their own.          *)
(*                                                                         *)
(* Representation                                                          *)
(*   - a CSV cell holding a number is a sequence of one-character strings  *)
(*   - a click rate is an integer number of 1/RateScale percent            *)
(*   - an average is the exact fraction [num, den] (Python: sum / len)     *)
(*   - a message text is a sequence of words; "keyword in text" is word    *)
(*     membership                                                          *)
(*   - a date cell is [fmt, y, m, d]; fmt names the notation it is written *)
(*     in ("dash" 2025-01-01, "dot" 2025.01.01, "slash" 2025/01/01,        *)
(*     "other" unparseable text, "empty" the empty cell)                   *)
(*   - Korean column names and labels are written by their English         *)
(*     equivalents (ko_ prefix for the Korean aliases of a column)         *)
(***************************************************************************)
EXTENDS Integers, Sequences, FiniteSets, TLC

VARIABLES data, high_performance_messages, performance_patterns,
          analysis_complete, high_performance_criteria,
          aggregated_high_performance,
          response, lastOp, lastCsv, everSucceeded, again,
          pc, job, rpc,
          gen_data, message_patterns, user_input, candidate_text, csv_row, returned,
          openai, OPENAI_AVAILABLE

vars == <<data, high_performance_messages, performance_patterns,
          analysis_complete, high_performance_criteria,
          aggregated_high_performance,
          response, lastOp, lastCsv, everSucceeded, again,
          pc, job, rpc,
          gen_data, message_patterns, user_input, candidate_text, csv_row, returned,
          openai, OPENAI_AVAILABLE>>

\* upload_web_server.py, lines 16-45: whether "import openai" bound the name
\* openai ("imported") or raised ImportError ("missing"), and OPENAI_AVAILABLE
settings == <<openai, OPENAI_AVAILABLE>>

\* message_ai_generator.py: the MessageAIGenerator object (its data, here gen_data,
\* and message_patterns), the arguments at hand (csv_row is the argument of
\* UploadAnalyzer.normalize_fields) and what the last call returned
generator == <<gen_data, message_patterns, user_input, candidate_text, csv_row, returned>>

engine == <<data, high_performance_messages, performance_patterns,
            analysis_complete, high_performance_criteria,
            aggregated_high_performance>>

----------------------------------------------------------------------------
(* Numbers *)

RateScale == 100 * 100

Rat(n, d) == [num |-> n, den |-> d]

RatZero == Rat(0, 1)

RatEq(a, b) == a.num * b.den = b.num * a.den

RatLE(a, b) == a.num * b.den <= b.num * a.den

RatLT(a, b) == a.num * b.den < b.num * a.den

RatOfRate(r) == Rat(r, 1)

RECURSIVE SumSeq(_)
SumSeq(s) == IF s = <<>> THEN 0 ELSE Head(s) + SumSeq(Tail(s))

RECURSIVE MaxSeq(_)
MaxSeq(s) == IF Len(s) = 1 THEN s[1]
             ELSE LET m == MaxSeq(Tail(s)) IN IF s[1] >= m THEN s[1] ELSE m

RECURSIVE MinSeq(_)
MinSeq(s) == IF Len(s) = 1 THEN s[1]
             ELSE LET m == MinSeq(Tail(s)) IN IF s[1] <= m THEN s[1] ELSE m

\* sum(rates) / len(rates) if rates else 0
Mean(rates) == IF rates = <<>> THEN RatZero ELSE Rat(SumSeq(rates), Len(rates))

\* round(x, 2) of the fraction x (in RateScale units): to the nearest 1/100.
\* The double the code rounds lies within 10^-12 of x, so this is its rounding
\* whenever x is not halfway between two hundredths
Round2(x) ==
    LET unit == RateScale \div 100
        twice == (2 * x.num) \div (unit * x.den)
    IN  ((twice + 1) \div 2) * unit

\* x is halfway between two hundredths: round(x, 2) depends on the double
IsTie(x) == 2 * (x.num % ((RateScale \div 100) * x.den)) = (RateScale \div 100) * x.den

----------------------------------------------------------------------------
(* IEEE doubles: m / 2^s with m of 53 bits, computed as the processor does,
   for the places where the exact value alone does not decide the result *)

\* a natural number as its digits in base Base, lowest first, without leading zeros
Base == 1024

RECURSIVE Big(_)
Big(n) == IF n = 0 THEN <<>> ELSE <<n % Base>> \o Big(n \div Base)

RECURSIVE Small(_)
Small(b) == IF b = <<>> THEN 0 ELSE Head(b) + Base * Small(Tail(b))

RECURSIVE Trim(_)
Trim(b) == IF b # <<>> /\ b[Len(b)] = 0 THEN Trim(SubSeq(b, 1, Len(b) - 1)) ELSE b

RECURSIVE BigTimesFrom(_, _, _)
BigTimesFrom(b, k, carry) ==
    IF b = <<>> THEN Big(carry)
    ELSE <<(Head(b) * k + carry) % Base>> \o BigTimesFrom(Tail(b), k, (Head(b) * k + carry) \div Base)

\* b * k, for k up to 2^20
BigTimes(b, k) == Trim(BigTimesFrom(b, k, 0))

RECURSIVE BigPlusFrom(_, _, _)
BigPlusFrom(a, b, carry) ==
    IF a = <<>> /\ b = <<>> THEN Big(carry)
    ELSE IF a = <<>> THEN BigPlusFrom(<<0>>, b, carry)
    ELSE IF b = <<>> THEN BigPlusFrom(a, <<0>>, carry)
    ELSE <<(Head(a) + Head(b) + carry) % Base>>
         \o BigPlusFrom(Tail(a), Tail(b), (Head(a) + Head(b) + carry) \div Base)

BigPlus(a, b) == BigPlusFrom(a, b, 0)

DivStep(high, digit, d) ==
    [q |-> <<(high.r * Base + digit) \div d>> \o high.q, r |-> (high.r * Base + digit) % d]

RECURSIVE BigDivMod(_, _)
\* quotient and remainder of b by d, for d up to 2^20
BigDivMod(b, d) ==
    IF b = <<>> THEN [q |-> <<>>, r |-> 0] ELSE DivStep(BigDivMod(Tail(b), d), Head(b), d)

RECURSIVE Pow2(_)
Pow2(n) == IF n = 0 THEN 1 ELSE 2 * Pow2(n - 1)

RECURSIVE BitsOf(_)
BitsOf(n) == IF n = 0 THEN 0 ELSE 1 + BitsOf(n \div 2)

BitLen(b) == IF b = <<>> THEN 0 ELSE 10 * (Len(b) - 1) + BitsOf(b[Len(b)])

Zeros(n) == [i \in 1..n |-> 0]

\* b * 2^n
BigShl(b, n) == IF b = <<>> THEN <<>> ELSE Zeros(n \div 10) \o BigTimes(b, Pow2(n % 10))

\* b / 2^n for n >= 1: the quotient q, whether the highest dropped bit is set
\* (half) and whether a lower dropped bit is set (rest)
ShrParts(low, dm, bits) ==
    [q    |-> Trim(dm.q),
     half |-> dm.r >= Pow2(bits - 1),
     rest |-> dm.r % Pow2(bits - 1) # 0 \/ \E i \in 1..Len(low) : low[i] # 0]

ShrOf(b, digits, bits) ==
    ShrParts(SubSeq(b, 1, digits), BigDivMod(SubSeq(b, digits + 1, Len(b)), Pow2(bits)), bits)

BigShr(b, n) == ShrOf(b \o Zeros((n - 1) \div 10 + 1), (n - 1) \div 10, n - 10 * ((n - 1) \div 10))

IsOdd(b) == b # <<>> /\ b[1] % 2 = 1

\* round half to even
Nearest(parts, inexact) ==
    IF parts.half /\ (parts.rest \/ inexact \/ IsOdd(parts.q)) THEN BigPlus(parts.q, <<1>>)
    ELSE parts.q

\* the double m / 2^s of a 53-bit m
Double(m, s) == IF BitLen(m) = 54 THEN [m |-> BigShr(m, 1).q, s |-> s - 1] ELSE [m |-> m, s |-> s]

DZero == [m |-> <<>>, s |-> 0]

Guard == 90

Rounded53(division, t) ==
    Double(Nearest(BigShr(Trim(division.q), BitLen(Trim(division.q)) - 53), division.r # 0),
           t + Guard - (BitLen(Trim(division.q)) - 53))

\* the double nearest to p / (q * 2^t): 53 significant bits, half to even
ToDouble(p, q, t) ==
    IF p = <<>> THEN DZero ELSE Rounded53(BigDivMod(BigShl(p, Guard), q), t)

\* float / int
DOver(x, k) == ToDouble(x.m, k, x.s)

\* float * int
DTimes(x, k) == ToDouble(BigTimes(x.m, k), 1, x.s)

\* float + float
DPlus(x, y) ==
    IF x.m = <<>> THEN y
    ELSE IF y.m = <<>> THEN x
    ELSE IF x.s >= y.s THEN ToDouble(BigPlus(x.m, BigShl(y.m, x.s - y.s)), 1, x.s)
    ELSE ToDouble(BigPlus(BigShl(x.m, y.s - x.s), y.m), 1, y.s)

\* int(x) of a double below 2^31
DInt(x) == IF x.m = <<>> THEN 0 ELSE Small(BigShr(x.m, x.s).q)

RECURSIVE DSum(_)
\* sum(doubles): added from the left
DSum(doubles) ==
    IF doubles = <<>> THEN DZero
    ELSE DPlus(DSum(SubSeq(doubles, 1, Len(doubles) - 1)), doubles[Len(doubles)])

\* round(x, 2) in hundredths: the nearest hundredth to the double, half to even
DHundredths(x) == IF x.m = <<>> THEN 0 ELSE Small(Nearest(BigShr(BigTimes(x.m, 100), x.s), FALSE))

----------------------------------------------------------------------------
(* Text cells *)

Digits == {"0", "1", "2", "3", "4", "5", "6", "7", "8", "9"}

DigitVal(c) == CASE c = "0" -> 0 [] c = "1" -> 1 [] c = "2" -> 2 [] c = "3" -> 3
                 [] c = "4" -> 4 [] c = "5" -> 5 [] c = "6" -> 6 [] c = "7" -> 7
                 [] c = "8" -> 8 [] c = "9" -> 9

RECURSIVE Replace(_, _)
\* s.replace(c, '')
Replace(s, c) == IF s = <<>> THEN <<>>
                 ELSE IF Head(s) = c THEN Replace(Tail(s), c)
                 ELSE <<Head(s)>> \o Replace(Tail(s), c)

RECURSIVE LStrip(_)
LStrip(s) == IF s # <<>> /\ Head(s) = " " THEN LStrip(Tail(s)) ELSE s

RECURSIVE RStrip(_)
RStrip(s) == IF s # <<>> /\ s[Len(s)] = " " THEN RStrip(SubSeq(s, 1, Len(s) - 1)) ELSE s

\* s.strip()
Strip(s) == RStrip(LStrip(s))

\* s.isdigit()
IsDigit(s) == s # <<>> /\ \A i \in 1..Len(s) : s[i] \in Digits

RECURSIVE IntOfDigits(_)
IntOfDigits(s) == IF s = <<>> THEN 0
                  ELSE 10 * IntOfDigits(SubSeq(s, 1, Len(s) - 1)) + DigitVal(s[Len(s)])

RECURSIVE FracOfDigits(_, _)
\* the digits after the point, in units of 1/RateScale (digits past that are cut)
FracOfDigits(s, unit) == IF s = <<>> \/ unit = 0 THEN 0
                         ELSE DigitVal(Head(s)) * (unit \div 10) + FracOfDigits(Tail(s), unit \div 10)

Count(s, c) == Cardinality({i \in 1..Len(s) : s[i] = c})

\* where the point is, or one past the end
PointAt(s) == IF Count(s, ".") = 0 THEN Len(s) + 1
              ELSE CHOOSE i \in 1..Len(s) : s[i] = "." /\ \A j \in 1..(i - 1) : s[j] # "."

FloatOk(val) == [ok |-> TRUE, val |-> val]

\* ValueError
FloatError == [ok |-> FALSE, val |-> 0]

\* integer part ip, fraction part fp, points the number of "." in the text
DigitsFloat(ip, fp, points) ==
    IF points <= 1 /\ IsDigit(ip \o fp)
    THEN FloatOk(IntOfDigits(ip) * RateScale + FracOfDigits(fp, RateScale))
    ELSE FloatError

UnsignedFloat(s, p) ==
    DigitsFloat(SubSeq(s, 1, p - 1), SubSeq(s, p + 1, Len(s)), Count(s, "."))

Signed(f, negative) == IF f.ok /\ negative THEN FloatOk(0 - f.val) ELSE f

Unsign(s) == IF s # <<>> /\ Head(s) \in {"-", "+"} THEN Tail(s) ELSE s

StrippedFloat(s) ==
    Signed(UnsignedFloat(Unsign(s), PointAt(Unsign(s))), s # <<>> /\ Head(s) = "-")

\* float(s): [ok, val]; ok = FALSE stands for ValueError.  Accepted: surrounding
\* blanks, one optional sign, digits with at most one point and at least one digit.
PyFloat(str) == StrippedFloat(Strip(str))

\* int(x) of a value in RateScale units: truncation toward zero
PyInt(v) == IF v >= 0 THEN v \div RateScale ELSE 0 - ((0 - v) \div RateScale)

IntOrZero(f) == IF f.ok THEN PyInt(f.val) ELSE 0

safe_int(value) == IntOrZero(PyFloat(Replace(value, ",")))

----------------------------------------------------------------------------
(* Dates *)

IsLeap(y) == (y % 4 = 0 /\ y % 100 # 0) \/ y % 400 = 0

DaysIn(y, m) == IF m = 2 THEN (IF IsLeap(y) THEN 29 ELSE 28)
                ELSE IF m \in {4, 6, 9, 11} THEN 30 ELSE 31

\* datetime.strptime(date_str, fmt) succeeds for one of the three formats
DateParses(cell) == /\ cell.fmt \in {"dash", "dot", "slash"}
                    /\ cell.m \in 1..12
                    /\ cell.d \in 1..DaysIn(cell.y, cell.m)

\* date.weekday(): Monday is 0
PyWeekday(date) ==
    LET a == (14 - date.m) \div 12
        yy == date.y - a
        mm == date.m + 12 * a - 2
        sun0 == (date.d + yy + yy \div 4 - yy \div 100 + yy \div 400 + (31 * mm) \div 12) % 7
    IN  (sun0 + 6) % 7

weekdays == <<"Mon", "Tue", "Wed", "Thu", "Fri", "Sat", "Sun">>

\* 'YYYY-MM-DD' strings compare as the dates do
DateKey(date) == (date.y * 100 + date.m) * 100 + date.d

----------------------------------------------------------------------------
(* Row normalisation and conversion *)

field_mappings ==
    [clickRate   |-> <<"ko_clickRate", "ko_clickRate2", "CTR", "click_rate", "clickrate">>,
     messageText |-> <<"ko_messageText", "ko_text", "message", "ko_content", "content", "ko_notice">>,
     service     |-> <<"ko_service", "ko_service2", "service", "service_name", "ko_product">>,
     sentDate    |-> <<"ko_sentDate", "ko_sentDate2", "date", "send_date", "ko_date">>,
     weekday     |-> <<"ko_weekday", "weekday", "day">>,
     sentCount   |-> <<"ko_sentCount", "send_count", "ko_sentCount2">>,
     clickCount  |-> <<"ko_clickCount", "click_count", "ko_clickCount2">>]

EmptyDate == [fmt |-> "empty", y |-> 0, m |-> 0, d |-> 0]

FieldDefault(field) == CASE field = "clickRate" -> <<"0">>
                         [] field = "messageText" -> <<"default_text">>
                         [] field = "service" -> <<"other">>
                         [] field = "sentDate" -> EmptyDate
                         [] OTHER -> <<>>

\* variant of lines 113-117 without the break: the last present alias wins
LastPresent(row, names) ==
    LET hits == {i \in 1..Len(names) : names[i] \in DOMAIN row}
    IN  IF hits = {} THEN 0 ELSE CHOOSE i \in hits : \A j \in hits : i >= j

\* lines 113-117: the first alias that is a key of the row, 0 when none is
FirstPresent(row, names) ==
    LET hits == {i \in 1..Len(names) : names[i] \in DOMAIN row}
    IN  IF hits = {} THEN 0 ELSE CHOOSE i \in hits : \A j \in hits : i <= j

normalize_fields(row) ==
    [field \in DOMAIN field_mappings |->
        LET i == FirstPresent(row, field_mappings[field])
        IN  IF i = 0 THEN FieldDefault(field) ELSE row[field_mappings[field][i]]]

NoRecord == [ok |-> FALSE]

\* lines 139-143, given float()'s outcome f; raises stands for its ValueError,
\* which line 189 turns into a rejected row
RateFrom(passes, f) ==
    IF passes
    THEN [raises |-> ~f.ok,
          val |-> IF f.val <= 100 * RateScale THEN f.val ELSE f.val \div 100]
    ELSE [raises |-> FALSE, val |-> 0]

StrippedRate(click_rate_str) ==
    RateFrom(IsDigit(Replace(Replace(click_rate_str, "."), "%")),
             PyFloat(Replace(click_rate_str, "%")))

\* lines 138-143
ClickRateOf(cell) == StrippedRate(Strip(cell))

\* lines 150-173: the parsed date, or the clock's date
SentDateOf(cell, now) ==
    IF cell.fmt # "empty" /\ DateParses(cell)
    THEN [y |-> cell.y, m |-> cell.m, d |-> cell.d]
    ELSE now

StrippedWeekday(weekday, date) ==
    IF weekday = <<>> THEN <<weekdays[PyWeekday(date) + 1]>> ELSE weekday

\* lines 176-181
WeekdayOf(cell, date) == StrippedWeekday(Strip(cell), date)

Converted(row, rate, date) ==
    IF rate.raises THEN NoRecord
    ELSE [ok |-> TRUE,
          rec |-> [clickRate   |-> rate.val,
                   messageText |-> Strip(row.messageText),
                   service     |-> Strip(row.service),
                   sentDate    |-> date,
                   weekday     |-> WeekdayOf(row.weekday, date),
                   sentCount   |-> safe_int(row.sentCount),
                   clickCount  |-> safe_int(row.clickCount)]]

process_row(row, now) ==
    Converted(row, ClickRateOf(row.clickRate), SentDateOf(row.sentDate, now))

Accepted(processed_row) == IF processed_row.ok THEN <<processed_row.rec>> ELSE <<>>

RECURSIVE IngestRowsUntilFailure(_, _)
\* variant of lines 50-70 where a row that fails ends the loop
IngestRowsUntilFailure(rows, now) ==
    IF rows = <<>> THEN <<>>
    ELSE IF ~process_row(normalize_fields(Head(rows)), now).ok THEN <<>>
    ELSE Accepted(process_row(normalize_fields(Head(rows)), now))
         \o IngestRowsUntilFailure(Tail(rows), now)

RECURSIVE IngestRows(_, _)
\* lines 50-70: the accepted rows, in input order
IngestRows(rows, now) ==
    IF rows = <<>> THEN <<>>
    ELSE Accepted(process_row(normalize_fields(Head(rows)), now)) \o IngestRows(Tail(rows), now)

----------------------------------------------------------------------------
(* Sequences and dictionaries *)

EmptyDict == <<>>

\* d.get(k, default)
Get(d, k, default) == IF k \in DOMAIN d THEN d[k] ELSE default

Rates(rows) == [i \in 1..Len(rows) |-> rows[i].clickRate]

Prefix(s, n) == SubSeq(s, 1, IF n < Len(s) THEN n ELSE Len(s))

InsertDesc(order, i, keys) ==
    LET k == Cardinality({p \in 1..Len(order) : keys[order[p]] >= keys[i]})
    IN  SubSeq(order, 1, k) \o <<i>> \o SubSeq(order, k + 1, Len(order))

RECURSIVE SortOrder(_, _)
SortOrder(n, keys) == IF n = 0 THEN <<>> ELSE InsertDesc(SortOrder(n - 1, keys), n, keys)

\* sorted(items, key=..., reverse=True): descending, equal keys keep their order
SortedDesc(items, keys) ==
    LET order == SortOrder(Len(items), keys)
    IN  [p \in 1..Len(items) |-> items[order[p]]]

RECURSIVE DistinctInOrder(_)
\* the keys of a dict filled in the order of s
DistinctInOrder(s) ==
    IF s = <<>> THEN <<>>
    ELSE LET front == DistinctInOrder(SubSeq(s, 1, Len(s) - 1))
             last == s[Len(s)]
         IN  IF \E i \in 1..Len(front) : front[i] = last THEN front ELSE Append(front, last)

----------------------------------------------------------------------------
(* aggregate_high_performance_messages *)

\* process_row line 140: float(click_rate_str), the double nearest to the decimal
\* (a rate above 100 in the rows is a whole number, so its hundredth is also
\* the double nearest to rate / RateScale)
DoubleOfRate(rate) == ToDouble(Big(rate), RateScale, 0)

\* line 445: int((click_rate / 100) * send_count) if send_count > 0 else 0.
\* Where the exact product is a whole number the doubles decide whether the
\* product reaches it; elsewhere they are within 10^-9 of the exact product
ClicksOf(msg) ==
    IF msg.sentCount > 0
    THEN IF (msg.clickRate * msg.sentCount) % (100 * RateScale) = 0
         THEN DInt(DTimes(DOver(DoubleOfRate(msg.clickRate), 100), msg.sentCount))
         ELSE (msg.clickRate * msg.sentCount) \div (100 * RateScale)
    ELSE 0

\* lines 428-450: the group of one message text, from its occurrences
GroupFrom(message_text, occurrences) ==
    [message     |-> message_text,
     occurrences |-> occurrences,
     total_sends |-> SumSeq([i \in 1..Len(occurrences) |-> occurrences[i].sentCount]),
     total_clicks |-> SumSeq([i \in 1..Len(occurrences) |-> ClicksOf(occurrences[i])]),
     click_rates |-> Rates(occurrences),
     services    |-> {occurrences[i].service : i \in 1..Len(occurrences)},
     dates       |-> [i \in 1..Len(occurrences) |-> DateKey(occurrences[i].sentDate)]]

\* lines 423-427
GroupOf(hp, message_text) ==
    GroupFrom(message_text, SelectSeq(hp, LAMBDA msg : Strip(msg.messageText) = message_text))

\* lines 463 and 473: round(total_clicks / total_sends * 100, 2)
TotalClickRate(total_clicks, total_sends) ==
    IF total_sends > 0
    THEN IF IsTie(Rat(total_clicks * 100 * RateScale, total_sends))
         THEN (RateScale \div 100)
              * DHundredths(DTimes(ToDouble(Big(total_clicks), total_sends, 0), 100))
         ELSE Round2(Rat(total_clicks * 100 * RateScale, total_sends))
    ELSE 0

\* lines 459-460 and 471-472: round(click_rate, 2) of one of the group's rates
RoundedRate(click_rate) ==
    IF IsTie(RatOfRate(click_rate))
    THEN (RateScale \div 100) * DHundredths(DoubleOfRate(click_rate))
    ELSE Round2(RatOfRate(click_rate))

\* lines 456 and 470: round(sum(click_rates) / len(click_rates), 2)
RoundedMean(click_rates) ==
    IF IsTie(Mean(click_rates))
    THEN (RateScale \div 100)
         * DHundredths(DOver(DSum([i \in 1..Len(click_rates) |-> DoubleOfRate(click_rates[i])]),
                             Len(click_rates)))
    ELSE Round2(Mean(click_rates))

\* lines 454-480
AggregateOf(group) ==
    [message          |-> group.message,
     send_count       |-> Len(group.occurrences),
     total_sends      |-> group.total_sends,
     total_clicks     |-> group.total_clicks,
     avg_click_rate   |-> RoundedMean(group.click_rates),
     max_click_rate   |-> RoundedRate(MaxSeq(group.click_rates)),
     min_click_rate   |-> RoundedRate(MinSeq(group.click_rates)),
     total_click_rate |-> TotalClickRate(group.total_clicks, group.total_sends),
     services         |-> group.services,
     date_range       |-> [first |-> MinSeq(group.dates), last |-> MaxSeq(group.dates)],
     occurrences      |-> group.occurrences]

\* variant without line 483: the groups in the order of the dict
InGroupOrder(aggregated_results) == aggregated_results

\* line 483
ByTotalClickRate(aggregated_results) ==
    SortedDesc(aggregated_results,
               [g \in 1..Len(aggregated_results) |-> aggregated_results[g].total_click_rate])

AggregatesOf(hp, texts) ==
    ByTotalClickRate([g \in 1..Len(texts) |-> AggregateOf(GroupOf(hp, texts[g]))])

aggregate_high_performance_messages(hp) ==
    IF hp = <<>> THEN <<>>
    ELSE AggregatesOf(hp, DistinctInOrder([i \in 1..Len(hp) |-> Strip(hp[i].messageText)]))

----------------------------------------------------------------------------
(* analyze_patterns *)

keywords == <<"benefit", "max", "discount", "rate", "limit", "loan", "compare",
              "switch", "confirm", "apply">>

\* keyword in text
Contains(text, keyword) == \E i \in 1..Len(text) : text[i] = keyword

\* line 204
PositiveRates(rows) == SelectSeq(Rates(rows), LAMBDA r : r > 0)

\* line 207: max(avg_rate * 1.2, 8.0)
ThresholdOf(avg_rate) ==
    IF RatLT(Rat(avg_rate.num * 6, avg_rate.den * 5), Rat(8 * RateScale, 1))
    THEN Rat(8 * RateScale, 1)
    ELSE Rat(avg_rate.num * 6, avg_rate.den * 5)

\* line 212: max(len(sorted_data) // 5, 10)
TopCount(n) == IF n \div 5 > 10 THEN n \div 5 ELSE 10

\* variant of lines 211-217 without the slice of line 212
HighPerformanceUncapped(rows, threshold) ==
    SelectSeq(SortedDesc(rows, Rates(rows)),
              LAMBDA row : RatLE(threshold, RatOfRate(row.clickRate)))

\* lines 211-217
HighPerformanceOf(rows, threshold) ==
    SelectSeq(Prefix(SortedDesc(rows, Rates(rows)), TopCount(Len(rows))),
              LAMBDA row : RatLE(threshold, RatOfRate(row.clickRate)))

\* lines 220-227
CriteriaOf(rows, avg_rate, threshold, hp) ==
    [threshold_rate   |-> threshold,
     avg_rate         |-> avg_rate,
     count            |-> Len(hp),
     top_percent      |-> 20,
     total_candidates |-> TopCount(Len(rows))]

\* lines 255-273: one service's entry, from its rows
ServiceEntry(messages) ==
    [messages       |-> Prefix(SortedDesc(messages, Rates(messages)), 5),
     total_clicks   |-> SumSeq(Rates(messages)),
     count          |-> Len(messages),
     avg_click_rate |-> Mean(Rates(messages))]

\* lines 235-273
ServiceAnalysisOf(rows) ==
    [service \in {rows[i].service : i \in 1..Len(rows)} |->
        ServiceEntry(SelectSeq(rows, LAMBDA row : row.service = service))]

\* lines 286-288
KeywordEntry(keyword_messages) == <<Mean(Rates(keyword_messages)), Len(keyword_messages)>>

\* lines 276-288
KeywordAnalysisOf(rows) ==
    [keyword \in {keywords[k] : k \in {k \in 1..Len(keywords) :
                     \E i \in 1..Len(rows) : Contains(rows[i].messageText, keywords[k])}} |->
        KeywordEntry(SelectSeq(rows, LAMBDA row : Contains(row.messageText, keyword)))]

\* lines 297-304
WeekdayEntry(day_messages) ==
    [avg_click_rate |-> Mean(Rates(day_messages)), count |-> Len(day_messages)]

\* variant of lines 291-304 without the else branch of line 303: a key for the
\* weekdays that have records only, as in the keyword analysis
WeekdayAnalysisOfPresent(rows) ==
    [day \in {weekdays[i] : i \in 1..Len(weekdays)}
                \cap {rows[r].weekday[1] : r \in {q \in 1..Len(rows) : Len(rows[q].weekday) = 1}} |->
        WeekdayEntry(SelectSeq(rows, LAMBDA row : row.weekday = <<day>>))]

\* lines 291-304
WeekdayAnalysisOf(rows) ==
    [day \in {weekdays[i] : i \in 1..Len(weekdays)} |->
        WeekdayEntry(SelectSeq(rows, LAMBDA row : row.weekday = <<day>>))]

\* variant of lines 307-318 averaging the positive rates only
PatternsOfPositive(rows, criteria) ==
    [service_analysis |-> ServiceAnalysisOf(rows),
     keyword_analysis |-> KeywordAnalysisOf(rows),
     time_analysis    |-> WeekdayAnalysisOf(rows),
     overall_avg      |-> Mean(PositiveRates(rows)),
     best_click_rate  |-> IF rows = <<>> THEN 0 ELSE MaxSeq(Rates(rows)),
     high_performance_criteria |-> criteria]

\* lines 307-318
PatternsOf(rows, criteria) ==
    [service_analysis |-> ServiceAnalysisOf(rows),
     keyword_analysis |-> KeywordAnalysisOf(rows),
     time_analysis    |-> WeekdayAnalysisOf(rows),
     overall_avg      |-> Mean(Rates(rows)),
     best_click_rate  |-> IF rows = <<>> THEN 0 ELSE MaxSeq(Rates(rows)),
     high_performance_criteria |-> criteria]

\* The analyzer's attributes as a record
Attributes(rows, hp, patterns, complete, criteria, aggregated) ==
    [data |-> rows, high_performance_messages |-> hp, performance_patterns |-> patterns,
     analysis_complete |-> complete, high_performance_criteria |-> criteria,
     aggregated_high_performance |-> aggregated]

\* lines 214-230 and 311-318, given the threshold and the high-performance rows
Analyzed(self, avg_rate, threshold, hp) ==
    [self EXCEPT
        !.high_performance_messages = hp,
        !.high_performance_criteria = CriteriaOf(self.data, avg_rate, threshold, hp),
        !.aggregated_high_performance = aggregate_high_performance_messages(hp),
        !.performance_patterns =
            PatternsOf(self.data, CriteriaOf(self.data, avg_rate, threshold, hp))]

AnalyzedAbove(self, avg_rate, threshold) ==
    Analyzed(self, avg_rate, threshold, HighPerformanceOf(self.data, threshold))

\* lines 234-318 when no row has a positive click rate (line 205 is false)
AnalyzedFlat(self) ==
    [self EXCEPT !.performance_patterns = PatternsOf(self.data, self.high_performance_criteria)]

AnalyzedFrom(self, avg_rate) == AnalyzedAbove(self, avg_rate, ThresholdOf(avg_rate))

\* The attributes analyze_patterns leaves, given the ones it finds
analyze_patterns(self) ==
    IF PositiveRates(self.data) # <<>>
    THEN AnalyzedFrom(self, Mean(PositiveRates(self.data)))
    ELSE AnalyzedFlat(self)

----------------------------------------------------------------------------
(* Queries of the analyzer *)

\* get_summary
get_summary(rows, hp) ==
    IF rows = <<>> THEN EmptyDict
    ELSE [total_messages         |-> Len(rows),
          avg_click_rate         |-> Mean(Rates(rows)),
          max_click_rate         |-> MaxSeq(Rates(rows)),
          min_click_rate         |-> MinSeq(Rates(rows)),
          high_performance_count |-> Len(hp),
          services_count         |-> Cardinality({rows[i].service : i \in 1..Len(rows)})]

IngestFirst == [success |-> FALSE, error |-> "ingest_first"]

\* lines 357-378
CleanServiceAnalysis(service_analysis) ==
    [service \in DOMAIN service_analysis |->
        [count          |-> service_analysis[service].count,
         avg_click_rate |-> service_analysis[service].avg_click_rate,
         messages       |-> service_analysis[service].messages]]

\* lines 339-396 of get_dashboard_data: the snapshot built from the attributes
DashboardData(rows, hp, patterns, aggregated) ==
    [summary |->
        [total_messages            |-> Len(rows),
         avg_click_rate            |-> Get(patterns, "overall_avg", RatZero),
         best_click_rate           |-> Get(patterns, "best_click_rate", 0),
         high_performance_count    |-> Len(hp),
         high_performance_criteria |-> Get(patterns, "high_performance_criteria", EmptyDict)],
     service_analysis |-> CleanServiceAnalysis(Get(patterns, "service_analysis", EmptyDict)),
     keyword_analysis |-> Get(patterns, "keyword_analysis", EmptyDict),
     time_analysis    |-> Get(patterns, "time_analysis", EmptyDict),
     high_performance_messages   |-> Prefix(hp, 10),
     aggregated_high_performance |-> aggregated]

\* variant of get_dashboard_data without the check of line 333
get_dashboard_data_unchecked(self) ==
    [success |-> TRUE,
     data |-> DashboardData(self.data, self.high_performance_messages,
                            self.performance_patterns, self.aggregated_high_performance)]

\* lines 331-396
get_dashboard_data(self) ==
    IF ~self.analysis_complete THEN IngestFirst
    ELSE [success |-> TRUE,
          data |-> DashboardData(self.data, self.high_performance_messages,
                                 self.performance_patterns, self.aggregated_high_performance)]

\* lines 197-206 of handle_generate
DataInsights(self) ==
    [total_analyzed         |-> Len(self.data),
     high_performance_count |-> Len(self.high_performance_messages),
     average_click_rate     |-> Get(self.performance_patterns, "overall_avg", RatZero)]

----------------------------------------------------------------------------
(* analyze_uploaded_csv, as one call *)

\* UploadAnalyzer.__init__; the two attributes analyze_patterns creates are read
\* with getattr(self, ..., {}) and getattr(self, ..., [])
NewAnalyzer == Attributes(<<>>, <<>>, EmptyDict, FALSE, EmptyDict, <<>>)

\* variant of lines 32-37 without line 34: rows accumulate across calls
ClearedKeepingData(self) ==
    [self EXCEPT !.high_performance_messages = <<>>,
                 !.performance_patterns = EmptyDict, !.analysis_complete = FALSE]

\* variant of lines 32-37 without line 37: the flag of the call before stays
ClearedKeepingComplete(self) ==
    [self EXCEPT !.data = <<>>, !.high_performance_messages = <<>>,
                 !.performance_patterns = EmptyDict]

\* lines 32-37
Cleared(self) ==
    [self EXCEPT !.data = <<>>, !.high_performance_messages = <<>>,
                 !.performance_patterns = EmptyDict, !.analysis_complete = FALSE]

\* lines 50-70
Filled(self, accepted) == [self EXCEPT !.data = self.data \o accepted]

\* lines 84-89
Succeeded(self) ==
    [self |-> self,
     result |-> [success |-> TRUE,
                 total_messages |-> Len(self.data),
                 high_performance_count |-> Len(self.high_performance_messages),
                 summary |-> get_summary(self.data, self.high_performance_messages)]]

\* lines 74-75 and 91-96
Failed(self) == [self |-> self, result |-> [success |-> FALSE, error |-> "no_valid_data"]]

\* lines 74-89, on the attributes the row loop leaves
Finished(self) ==
    IF self.data = <<>> THEN Failed(self)
    ELSE Succeeded([analyze_patterns(self) EXCEPT !.analysis_complete = TRUE])

\* The attributes after analyze_uploaded_csv(rows) and the value it returns
analyze_uploaded_csv(self, rows, now) == Finished(Filled(Cleared(self), IngestRows(rows, now)))

----------------------------------------------------------------------------
(* Inputs *)

MaxRows == 2

MaxHigh == 11

MaxLow == 3

Day(fmt, y, m, d) == [fmt |-> fmt, y |-> y, m |-> m, d |-> d]

TextBenefit == <<"(ad)", "benefit", "confirm">>

TextRate == <<"(ad)", "rate", "compare">>

TextLoan == <<"(ad)", "loan", "apply">>

\* Rows in the column names of the upload page's sample
KoRow(service, rate, text, date, weekday, sent) ==
    [ko_service |-> service, ko_clickRate |-> rate, ko_messageText |-> text,
     ko_sentDate |-> date, ko_weekday |-> weekday, ko_sentCount |-> sent,
     ko_clickCount |-> <<>>]

RowA == KoRow(<<"LoanA">>, <<"1", "2", ".", "5">>, TextBenefit,
              Day("dash", 2025, 1, 1), <<>>, <<"3", "0">>)

RowB == KoRow(<<"LoanB">>, <<"8", ".", "3">>, TextRate,
              Day("dot", 2025, 1, 2), <<"Thu">>, <<"1", ",", "0", "0", "0">>)

\* a click rate that is no number
RowZ == KoRow(<<"LoanA">>, <<"a", "b", "c">>, TextBenefit,
              Day("slash", 2025, 1, 3), <<>>, <<"1", "0">>)

\* two decimal points
RowDots == KoRow(<<"LoanA">>, <<"1", ".", "2", ".", "3">>, TextRate,
                 Day("dash", 2025, 1, 6), <<>>, <<"1", "0">>)

\* click rates above 100
RowHuge == KoRow(<<"LoanB">>, <<"2", "0", "0", "0", "0">>, TextRate,
                 Day("dash", 2025, 1, 7), <<>>, <<"1", "0">>)

RowScaled == KoRow(<<"LoanB">>, <<"1", "5", "0">>, TextRate,
                   Day("dash", 2025, 1, 7), <<>>, <<"1", "0">>)

\* English column names, a percent sign, blanks around the service, no weekday column
RowAlias == [service |-> <<" ", "LoanA", " ">>, CTR |-> <<"9", "%">>, message |-> TextLoan,
             date |-> Day("dash", 2025, 1, 8), send_count |-> <<"4", "0">>]

\* a date no format parses, a weekday that is no weekday label
RowUndated == KoRow(<<"LoanC">>, <<"1", "0">>, TextLoan,
                    Day("other", 0, 0, 0), <<>>, <<"-", "5">>)

RowWeekday == KoRow(<<"LoanC">>, <<"1", "1">>, TextLoan,
                    Day("dash", 2025, 1, 9), <<"Wednesday">>, <<"x">>)

\* the rows of the bulk uploads
RowHigh == KoRow(<<"LoanC">>, <<"2", "0">>, TextLoan,
                 Day("dash", 2025, 2, 3), <<>>, <<"1", "8">>)

RowLow == KoRow(<<"LoanA">>, <<"1">>, TextBenefit,
                Day("dash", 2025, 2, 4), <<>>, <<"5", "0">>)

\* a click rate halfway between two hundredths, sent to 800 members
RowTie == KoRow(<<"LoanB">>, <<"1", "3", ".", "6", "2", "5">>, TextRate,
                Day("dash", 2025, 2, 6), <<>>, <<"8", "0", "0">>)

\* a lower click rate than RowHigh, and more clicks for it
RowRunnerUp == KoRow(<<"LoanB">>, <<"1", "9">>, TextRate,
                     Day("dash", 2025, 2, 5), <<>>, <<"1", "0", "0">>)

BaseRows == {RowA, RowB, RowZ}

SpecialRows == {RowDots, RowHuge, RowScaled, RowAlias, RowUndated, RowWeekday}

RECURSIVE SeqsUpTo(_, _)
SeqsUpTo(S, n) == IF n = 0 THEN {<<>>}
                  ELSE LET shorter == SeqsUpTo(S, n - 1)
                       IN  shorter \cup {Append(q, x) : q \in shorter, x \in S}

Rep(row, n) == [i \in 1..n |-> row]

BulkDatasets == {Rep(RowHigh, h) \o Rep(RowLow, l) : h \in {2, MaxHigh}, l \in {1, MaxLow}}

Datasets ==
    SeqsUpTo(BaseRows, MaxRows)
    \cup {<<s>> : s \in SpecialRows}
    \cup {<<s, b>> : s \in SpecialRows, b \in {RowA, RowZ}}
    \cup {<<b, s>> : s \in SpecialRows, b \in {RowA, RowZ}}
    \cup {<<RowA, RowB, RowZ>>, <<RowHigh, RowRunnerUp, RowHigh, RowLow>>, <<RowTie, RowLow>>}
    \cup BulkDatasets

\* what datetime.now() may return during an upload
Nows == {[y |-> 2025, m |-> 3, d |-> 3], [y |-> 2025, m |-> 3, d |-> 4]}

NoDate(cell) == cell.fmt = "empty" \/ ~DateParses(cell)

Undated(rows) == \E i \in 1..Len(rows) : NoDate(normalize_fields(rows[i]).sentDate)

\* the clock matters to an upload only when a row carries no date
NowsFor(rows) == IF Undated(rows) THEN Nows
                 ELSE {CHOOSE now \in Nows : \A other \in Nows : DateKey(now) <= DateKey(other)}

\* the body of POST /api/upload-csv: csv_content, '' when absent
NoContent == [empty |-> TRUE, rows |-> <<>>]

Csv(rows) == [empty |-> FALSE, rows |-> rows]

----------------------------------------------------------------------------
(* The server: socketserver.TCPServer handles one request at a time *)

NoResponse == [kind |-> "none", status |-> 0, body |-> EmptyDict]

NoUpload == [rows |-> <<>>, now |-> CHOOSE now \in Nows : TRUE]

NoJob == [rows |-> <<>>, now |-> CHOOSE now \in Nows : TRUE]

Self == Attributes(data, high_performance_messages, performance_patterns,
                   analysis_complete, high_performance_criteria,
                   aggregated_high_performance)

SetSelf(self) ==
    /\ data' = self.data
    /\ high_performance_messages' = self.high_performance_messages
    /\ performance_patterns' = self.performance_patterns
    /\ analysis_complete' = self.analysis_complete
    /\ high_performance_criteria' = self.high_performance_criteria
    /\ aggregated_high_performance' = self.aggregated_high_performance

----------------------------------------------------------------------------
(* upload_web_server.py: handle_generate.  A request body is a dict with any *)
(* of the keys description (a sequence of words), service (a cell, as in    *)
(* the CSV), target_audience (a word) and tone.                              *)

Reply(kind, status, body) == [kind |-> kind, status |-> status, body |-> body]

\* lines 163-168
UserRequest(body) ==
    [description     |-> Get(body, "description", <<>>),
     service         |-> Get(body, "service", <<>>),
     target_audience |-> Get(body, "target_audience", "customer"),
     tone            |-> Get(body, "tone", "promotional")]

\* lines 263-271
NoDataMessages ==
    <<[style |-> "error", message |-> <<"upload_a_csv_first">>, predicted_rate |-> 0,
       reasoning |-> <<"no_analysed_data">>, confidence |-> 0]>>

\* lines 286-292: the keywords used more than once whose average is above avg_rate,
\* in the order analyze_patterns entered them
EffectiveKeywords(keyword_analysis, avg_rate) ==
    SelectSeq(keywords, LAMBDA keyword :
                 /\ keyword \in DOMAIN keyword_analysis
                 /\ RatLT(avg_rate, keyword_analysis[keyword][1])
                 /\ keyword_analysis[keyword][2] > 1)

\* line 295: sort(key=rate, reverse=True) is stable
InsertByRate(sorted, keyword, keyword_analysis) ==
    SubSeq(sorted, 1, Cardinality({p \in 1..Len(sorted) :
                         RatLE(keyword_analysis[keyword][1], keyword_analysis[sorted[p]][1])}))
        \o <<keyword>>
        \o SubSeq(sorted, Cardinality({p \in 1..Len(sorted) :
                         RatLE(keyword_analysis[keyword][1], keyword_analysis[sorted[p]][1])}) + 1,
                  Len(sorted))

RECURSIVE SortedByRate(_, _)
SortedByRate(effective, keyword_analysis) ==
    IF effective = <<>> THEN <<>>
    ELSE InsertByRate(SortedByRate(SubSeq(effective, 1, Len(effective) - 1), keyword_analysis),
                      effective[Len(effective)], keyword_analysis)

\* lines 295-296
TopKeywords(keyword_analysis, avg_rate) ==
    Prefix(SortedByRate(EffectiveKeywords(keyword_analysis, avg_rate), keyword_analysis), 5)

\* line 300
simulation_keywords ==
    <<"benefit", "max", "discount", "rate", "limit", "loan", "compare", "switch",
      "confirm", "apply", "special", "instant", "deadline">>

\* lines 299-303
UserKeywords(description) ==
    SelectSeq(simulation_keywords, LAMBDA keyword : Contains(description, keyword))

SetOf(s) == {s[i] : i \in 1..Len(s)}

\* line 306: list(set(..)) has the set's elements in an order that depends on
\* the hash seed of the process; lines 329-359 read final_keywords[:2] only
FirstTwoOf(S) ==
    IF Cardinality(S) = 1 THEN {<<x>> : x \in S}
    ELSE {<<x, y>> : x \in S, y \in S} \ {<<x, x>> : x \in S}

\* lines 306-308: what final_keywords[:2] can be
FinalKeywords(top_keywords, user_keywords) ==
    IF SetOf(Prefix(top_keywords, 3) \o Prefix(user_keywords, 2)) # {}
    THEN FirstTwoOf(SetOf(Prefix(top_keywords, 3) \o Prefix(user_keywords, 2)))
    ELSE IF top_keywords # <<>> THEN {Prefix(top_keywords, 2)}
    ELSE {<<"benefit", "confirm">>}

\* round(x, 1) of the fraction x (in RateScale units): to the nearest 1/10
Round1(x) ==
    LET unit == RateScale \div 10
        twice == (2 * x.num) \div (unit * x.den)
    IN  ((twice + 1) \div 2) * unit

\* lines 328, 339, 354: min(rate * by / 10, best_rate * cap / 100) if best_rate > 0
\* else rate + plus / 10, rounded at lines 333, 343, 358
PredictedRate(rate, by, best_rate, cap, plus) ==
    Round1(IF best_rate > 0
           THEN (IF rate.num * by * 10 <= best_rate * cap * rate.den
                 THEN Rat(rate.num * by, rate.den * 10)
                 ELSE Rat(best_rate * cap, 100))
           ELSE Rat(rate.num * 10 + plus * RateScale * rate.den, rate.den * 10))

\* ', '.join(words)
Joined(words) == IF Len(words) = 2 THEN <<words[1], ",", words[2]>> ELSE words

ServiceOr(service) == IF service # <<>> THEN service ELSE <<"loan">>

\* lines 349-352
TargetServiceRate(service_analysis, service, avg_rate) ==
    IF service # <<>> /\ service \in DOMAIN service_analysis
    THEN service_analysis[service].avg_click_rate
    ELSE avg_rate

\* lines 325-364.  The loop of lines 313-322 fills high_perf_patterns, which
\* nothing reads.
SimulatedMessages(self, service, target, avg_rate, best_rate, keyword_analysis, final) ==
    <<[style |-> "benefit",
       message |-> <<"(ad)", target, "for", "proven">> \o Joined(final) \o <<"benefit", "!">>
                      \o ServiceOr(service)
                      \o <<"now", "confirm", "max", "benefit", "receive", "emoji_point">>,
       predicted_rate |-> PredictedRate(avg_rate, 13, best_rate, 85, 20),
       reasoning |-> [keyword |-> final[1],
                      rate |-> Get(keyword_analysis, final[1], <<avg_rate>>)[1],
                      total |-> Len(self.data)],
       confidence |-> 88],
      [style |-> "urgency",
       message |-> <<"(ad)", "emoji_bolt", "limited", "period", "!">> \o ServiceOr(service)
                      \o <<final[1], "deadline", "soon", "now", "confirm", "!">>,
       predicted_rate |-> PredictedRate(avg_rate, 12, best_rate, 80, 15),
       reasoning |-> [rate |-> avg_rate, count |-> Len(self.high_performance_messages)],
       confidence |-> 82],
      [style |-> "personal",
       message |-> <<"(ad)", target, "tailored">> \o ServiceOr(service) \o <<"found", "!">>
                      \o Joined(final) \o <<"personal", "best", "terms", "confirm">>,
       predicted_rate |->
           PredictedRate(TargetServiceRate(Get(self.performance_patterns, "service_analysis",
                                               EmptyDict), service, avg_rate),
                         14, best_rate, 90, 30),
       reasoning |-> [service |-> service,
                      rate |-> TargetServiceRate(Get(self.performance_patterns,
                                                     "service_analysis", EmptyDict),
                                                 service, avg_rate),
                      keyword |-> final[1]],
       confidence |-> 91]>>

\* generate_simulation: every list it can return
generate_simulation(self, user_request) ==
    IF ~self.analysis_complete \/ self.data = <<>> THEN {NoDataMessages}
    ELSE {SimulatedMessages(self, Get(user_request, "service", <<>>),
                            Get(user_request, "target_audience", "customer"),
                            Get(self.performance_patterns, "overall_avg", RatZero),
                            Get(self.performance_patterns, "best_click_rate", 0),
                            Get(self.performance_patterns, "keyword_analysis", EmptyDict),
                            final) :
             final \in FinalKeywords(
                 TopKeywords(Get(self.performance_patterns, "keyword_analysis", EmptyDict),
                             Get(self.performance_patterns, "overall_avg", RatZero)),
                 UserKeywords(Get(user_request, "description", <<>>)))}

\* what chat.completions.create and parse_llm_response make of a call
llm_outcomes == {"raises", "no_json", "empty_list", "messages"}

\* a list parsed from the model's answer (lines 472-481, 493-500)
ParsedMessages == <<[style |-> "llm", message |-> <<"(ad)", "llm">>, confidence |-> 90]>>

\* generate_with_openai and parse_llm_response, for each outcome of the call
generate_with_openai(self, user_request, llm) ==
    IF llm = "raises" THEN generate_simulation(self, user_request)
    ELSE IF llm = "no_json" THEN generate_simulation(self, EmptyDict)
    ELSE IF llm = "empty_list" THEN {<<>>}
    ELSE {ParsedMessages}

high_value_keywords ==
    <<"benefit", "discount", "max", "special", "limited", "free", "instant", "urgent",
      "deadline">>

service_keywords ==
    <<"loan", "rate", "limit", "switch", "compare", "approval", "apply", "confirm">>

target_keywords ==
    <<"office_worker", "freelancer", "self_employed", "homemaker", "credit", "secured">>

\* a in b, for cells
IsInfix(a, b) == \E i \in 0..(Len(b) - Len(a)) : SubSeq(b, i + 1, i + Len(a)) = a

\* lines 543-566: the keywords of a list that are in the request's text and in the message
Matched(list, requested, msg_text) ==
    SelectSeq(list, LAMBDA keyword : Contains(requested, keyword) /\ Contains(msg_text, keyword))

\* lines 537-578
RelevanceScore(msg, service, description, target_audience) ==
    (IF service # <<>> /\ IsInfix(service, msg.service) THEN 5 ELSE 0)
    + 3 * Len(Matched(high_value_keywords, description, msg.messageText))
    + 2 * Len(Matched(service_keywords, description, msg.messageText))
    + 2 * Len(Matched(target_keywords, <<target_audience>>, msg.messageText))
    + (IF msg.clickRate >= 15 * RateScale THEN 3
       ELSE IF msg.clickRate >= 10 * RateScale THEN 2 ELSE 0)

\* the match_reasons of lines 537-578, by the rule's name
RelevanceReasons(msg, service, description, target_audience) ==
    (IF service # <<>> /\ IsInfix(service, msg.service) THEN <<"service">> ELSE <<>>)
    \o (IF Matched(high_value_keywords, description, msg.messageText) # <<>>
        THEN <<"high_value_keywords">> ELSE <<>>)
    \o (IF Matched(service_keywords, description, msg.messageText) # <<>>
        THEN <<"service_keywords">> ELSE <<>>)
    \o (IF Matched(target_keywords, <<target_audience>>, msg.messageText) # <<>>
        THEN <<"target">> ELSE <<>>)
    \o (IF msg.clickRate >= 15 * RateScale THEN <<"high_rate">>
        ELSE IF msg.clickRate >= 10 * RateScale THEN <<"good_rate">> ELSE <<>>)

\* lines 581-590
Relevant(msg, score, match_reasons) ==
    IF score > 0
    THEN <<[message |-> msg.messageText, actual_rate |-> msg.clickRate,
            service |-> msg.service,
            match_score |-> IF score * 5 < 100 THEN score * 5 ELSE 100,
            date |-> msg.sentDate,
            match_reasons |-> match_reasons,
            similarity_level |-> IF score >= 10 THEN "very_high"
                                 ELSE IF score >= 6 THEN "high" ELSE "medium"]>>
    ELSE <<>>

\* line 593: the sort key (match_score, actual_rate), descending
RelevantAtLeast(a, b) ==
    \/ a.match_score > b.match_score
    \/ a.match_score = b.match_score /\ a.actual_rate >= b.actual_rate

\* line 593: the sort is stable
InsertRelevant(sorted, found) ==
    IF found = <<>> THEN sorted
    ELSE SubSeq(sorted, 1, Cardinality({p \in 1..Len(sorted) :
                              RelevantAtLeast(sorted[p], found[1])}))
            \o found
            \o SubSeq(sorted, Cardinality({p \in 1..Len(sorted) :
                              RelevantAtLeast(sorted[p], found[1])}) + 1, Len(sorted))

RECURSIVE RelevantOf(_, _)
RelevantOf(rows, user_request) ==
    IF rows = <<>> THEN <<>>
    ELSE InsertRelevant(RelevantOf(SubSeq(rows, 1, Len(rows) - 1), user_request),
                        Relevant(rows[Len(rows)],
                                 RelevanceScore(rows[Len(rows)], user_request.service,
                                                user_request.description,
                                                user_request.target_audience),
                                 RelevanceReasons(rows[Len(rows)], user_request.service,
                                                  user_request.description,
                                                  user_request.target_audience)))

\* find_relevant_messages
find_relevant_messages(self, user_request) == Prefix(RelevantOf(self.data, user_request), 5)

\* lines 178-191; openai.api_key is set whenever the import succeeded (lines 22-25)
GeneratedMessages(self, user_request, llm) ==
    IF OPENAI_AVAILABLE THEN generate_with_openai(self, user_request, llm)
    ELSE generate_simulation(self, user_request)

\* line 173 reads openai.api_key: a NameError when the import failed
NameError == [success |-> FALSE, error |-> "name_openai_is_not_defined"]

\* handle_generate from line 156 on: every reply it can send
GenerateReplies(self, body, llm) ==
    IF openai = "missing" THEN {Reply("generate", 500, NameError)}
    ELSE {Reply("generate", 200,
                [success |-> TRUE,
                 generated_messages |-> generated,
                 relevant_existing_messages |-> find_relevant_messages(self, UserRequest(body)),
                 data_insights |-> DataInsights(self)]) :
             generated \in GeneratedMessages(self, UserRequest(body), llm)}

\* a dict with the key, or without it
Opt(key, values) == {EmptyDict} \cup {key :> v : v \in values}

\* the request bodies
GenerateBodies ==
    {d @@ s @@ t :
        d \in Opt("description", {<<"benefit", "rate", "offer">>}),
        s \in Opt("service", {<<"LoanA">>, <<"LoanX">>}),
        t \in Opt("target_audience", {"office_worker"})}

----------------------------------------------------------------------------
(* The server *)

\* the server as started
AnalyzerInit ==
    /\ data = NewAnalyzer.data
    /\ high_performance_messages = NewAnalyzer.high_performance_messages
    /\ performance_patterns = NewAnalyzer.performance_patterns
    /\ analysis_complete = NewAnalyzer.analysis_complete
    /\ high_performance_criteria = NewAnalyzer.high_performance_criteria
    /\ aggregated_high_performance = NewAnalyzer.aggregated_high_performance
    /\ response = NoResponse
    /\ lastOp = "none"
    /\ lastCsv = NoUpload
    /\ everSucceeded = FALSE
    /\ again = FALSE
    /\ pc = "idle"
    /\ job = NoJob
    /\ rpc = "idle"

NotCalled == [call |-> "none", result |-> <<>>]

\* lines 16-45 with the package installed and the key as shipped
\* (DIRECT_API_KEY, line 22, is a placeholder): the test call at line 34 fails
ServerInit ==
    /\ AnalyzerInit
    /\ openai = "imported"
    /\ OPENAI_AVAILABLE = FALSE

\* no MessageAIGenerator: the server does not construct one
Init ==
    /\ ServerInit
    /\ gen_data = <<>>
    /\ message_patterns = <<>>
    /\ user_input = EmptyDict
    /\ candidate_text = <<>>
    /\ csv_row = EmptyDict
    /\ returned = NotCalled

Idle == pc = "idle" /\ rpc = "idle"

\* lines 103-110
Analysed(out, content, now) ==
    /\ SetSelf(out.self)
    /\ response' = Reply("upload", 200, out.result)
    /\ lastOp' = "upload"
    /\ lastCsv' = [rows |-> content.rows, now |-> now]
    /\ everSucceeded' = (everSucceeded \/ out.result.success)
    /\ again' = (analysis_complete /\ lastCsv.rows = content.rows)

\* handle_upload_csv
HandleUploadCsv(content, now) ==
    /\ Idle
    /\ IF content.empty
       THEN /\ response' = Reply("upload", 500, [success |-> FALSE, error |-> "empty_content"])
            /\ lastOp' = "rejected"
            /\ UNCHANGED <<engine, lastCsv, everSucceeded, again>>
       ELSE Analysed(analyze_uploaded_csv(Self, content.rows, now), content, now)
    /\ UNCHANGED <<pc, job, rpc, generator, settings>>

\* handle_dashboard
HandleDashboard ==
    /\ Idle
    /\ response' = Reply("dashboard", 200, get_dashboard_data(Self))
    /\ lastOp' = "dashboard"
    /\ UNCHANGED <<engine, lastCsv, everSucceeded, again, pc, job, rpc, generator, settings>>

\* handle_generate
HandleGenerate(body, llm) ==
    /\ Idle
    /\ response' \in (IF ~analysis_complete THEN {Reply("generate", 500, IngestFirst)}
                      ELSE GenerateReplies(Self, body, llm))
    /\ lastOp' = "generate"
    /\ UNCHANGED <<engine, lastCsv, everSucceeded, again, pc, job, rpc, generator, settings>>

Next ==
    \/ \E rows \in Datasets : \E now \in NowsFor(rows) : HandleUploadCsv(Csv(rows), now)
    \/ \E now \in NowsFor(<<>>) : HandleUploadCsv(NoContent, now)
    \/ HandleDashboard
    \/ \E llm \in llm_outcomes : HandleGenerate(EmptyDict, llm)

Spec == Init /\ [][Next]_vars

----------------------------------------------------------------------------
(* The generate handler under every outcome of the import block, lines 16-45 *)

\* the uploads: a header without rows, one row, two services, a keyword that is
\* used twice with an average above the overall one
FallbackDatasets == {<<>>, <<RowA>>, <<RowA, RowB>>, <<RowHigh, RowHigh, RowLow>>}

\* lines 16-45: the import fails; or it succeeds and the test call at line 34
\* fails or succeeds
InitFallback ==
    /\ AnalyzerInit
    /\ \/ openai = "missing" /\ OPENAI_AVAILABLE = FALSE
       \/ openai = "imported" /\ OPENAI_AVAILABLE \in BOOLEAN
    /\ gen_data = <<>>
    /\ message_patterns = <<>>
    /\ user_input = EmptyDict
    /\ candidate_text = <<>>
    /\ csv_row = EmptyDict
    /\ returned = NotCalled

NextFallback ==
    \/ \E rows \in FallbackDatasets : \E now \in NowsFor(rows) : HandleUploadCsv(Csv(rows), now)
    \/ \E body \in GenerateBodies : \E llm \in llm_outcomes : HandleGenerate(body, llm)

SpecFallback == InitFallback /\ [][NextFallback]_vars

----------------------------------------------------------------------------
(* The handlers as threads over the module-level analyzer: each step is one   *)
(* assignment to an attribute, or one read of the attributes, of the code.    *)
(* The analyzer has no lock; this is what a server that handles requests      *)
(* concurrently (or any threaded caller of the analyzer) runs.                *)

MaxThreadRows == 2

ThreadDatasets == SeqsUpTo({RowA, RowB}, MaxThreadRows)

ReaderQuiet == UNCHANGED <<rpc, again, generator, settings>>

\* handle_upload_csv up to line 34 of analyze_uploaded_csv
UploadBegin(content, now) ==
    /\ pc = "idle"
    /\ IF content.empty
       THEN /\ response' = Reply("upload", 500, [success |-> FALSE, error |-> "empty_content"])
            /\ lastOp' = "rejected"
            /\ UNCHANGED <<data, lastCsv, pc, job>>
       ELSE /\ data' = <<>>
            /\ lastCsv' = [rows |-> content.rows, now |-> now]
            /\ job' = [rows |-> content.rows, now |-> now]
            /\ pc' = "L35"
            /\ UNCHANGED <<response, lastOp>>
    /\ UNCHANGED <<high_performance_messages, performance_patterns, analysis_complete,
                   high_performance_criteria, aggregated_high_performance, everSucceeded>>
    /\ ReaderQuiet

\* line 35
ClearHighPerformance ==
    /\ pc = "L35"
    /\ high_performance_messages' = <<>>
    /\ pc' = "L36"
    /\ UNCHANGED <<data, performance_patterns, analysis_complete, high_performance_criteria,
                   aggregated_high_performance, response, lastOp, lastCsv, everSucceeded, job>>
    /\ ReaderQuiet

\* line 36
ClearPatterns ==
    /\ pc = "L36"
    /\ performance_patterns' = EmptyDict
    /\ pc' = "L37"
    /\ UNCHANGED <<data, high_performance_messages, analysis_complete,
                   high_performance_criteria, aggregated_high_performance, response, lastOp,
                   lastCsv, everSucceeded, job>>
    /\ ReaderQuiet

\* line 37
ClearComplete ==
    /\ pc = "L37"
    /\ analysis_complete' = FALSE
    /\ pc' = "L52"
    /\ UNCHANGED <<data, high_performance_messages, performance_patterns,
                   high_performance_criteria, aggregated_high_performance, response, lastOp,
                   lastCsv, everSucceeded, job>>
    /\ ReaderQuiet

\* lines 52-70, one row
RowStep ==
    /\ pc = "L52"
    /\ job.rows # <<>>
    /\ data' = data \o Accepted(process_row(normalize_fields(Head(job.rows)), job.now))
    /\ job' = [job EXCEPT !.rows = Tail(job.rows)]
    /\ UNCHANGED <<high_performance_messages, performance_patterns, analysis_complete,
                   high_performance_criteria, aggregated_high_performance, response, lastOp,
                   lastCsv, everSucceeded, pc>>
    /\ ReaderQuiet

\* lines 74-75 and 91-96
RowsDone ==
    /\ pc = "L52"
    /\ job.rows = <<>>
    /\ IF data = <<>>
       THEN /\ response' = Reply("upload", 200, Failed(Self).result)
            /\ lastOp' = "upload"
            /\ pc' = "idle"
       ELSE /\ pc' = "L204"
            /\ UNCHANGED <<response, lastOp>>
    /\ UNCHANGED <<engine, lastCsv, everSucceeded, job>>
    /\ ReaderQuiet

\* lines 204-217 of analyze_patterns
AnalyzeHighPerformance ==
    /\ pc = "L204"
    /\ IF PositiveRates(data) # <<>>
       THEN /\ high_performance_messages' =
                  HighPerformanceOf(data, ThresholdOf(Mean(PositiveRates(data))))
            /\ pc' = "L220"
       ELSE /\ pc' = "L311"
            /\ UNCHANGED high_performance_messages
    /\ UNCHANGED <<data, performance_patterns, analysis_complete, high_performance_criteria,
                   aggregated_high_performance, response, lastOp, lastCsv, everSucceeded, job>>
    /\ ReaderQuiet

\* lines 220-227
AnalyzeCriteria ==
    /\ pc = "L220"
    /\ high_performance_criteria' =
          CriteriaOf(data, Mean(PositiveRates(data)), ThresholdOf(Mean(PositiveRates(data))),
                     high_performance_messages)
    /\ pc' = "L230"
    /\ UNCHANGED <<data, high_performance_messages, performance_patterns, analysis_complete,
                   aggregated_high_performance, response, lastOp, lastCsv, everSucceeded, job>>
    /\ ReaderQuiet

\* line 230
AnalyzeAggregate ==
    /\ pc = "L230"
    /\ aggregated_high_performance' =
          aggregate_high_performance_messages(high_performance_messages)
    /\ pc' = "L311"
    /\ UNCHANGED <<data, high_performance_messages, performance_patterns, analysis_complete,
                   high_performance_criteria, response, lastOp, lastCsv, everSucceeded, job>>
    /\ ReaderQuiet

\* lines 234-318
AnalyzePatterns ==
    /\ pc = "L311"
    /\ performance_patterns' = PatternsOf(data, high_performance_criteria)
    /\ pc' = "L80"
    /\ UNCHANGED <<data, high_performance_messages, analysis_complete,
                   high_performance_criteria, aggregated_high_performance, response, lastOp,
                   lastCsv, everSucceeded, job>>
    /\ ReaderQuiet

\* lines 80-89
MarkComplete ==
    /\ pc = "L80"
    /\ analysis_complete' = TRUE
    /\ response' = Reply("upload", 200, Succeeded(Self).result)
    /\ lastOp' = "upload"
    /\ everSucceeded' = TRUE
    /\ pc' = "idle"
    /\ UNCHANGED <<data, high_performance_messages, performance_patterns,
                   high_performance_criteria, aggregated_high_performance, lastCsv, job>>
    /\ ReaderQuiet

WriterQuiet == UNCHANGED <<engine, lastCsv, everSucceeded, again, pc, job, generator, settings>>

\* get_dashboard_data, line 333
DashboardCheck ==
    /\ rpc = "idle"
    /\ IF ~analysis_complete
       THEN /\ response' = Reply("dashboard", 200, IngestFirst)
            /\ lastOp' = "dashboard"
            /\ UNCHANGED rpc
       ELSE /\ rpc' = "L339"
            /\ UNCHANGED <<response, lastOp>>
    /\ WriterQuiet

\* get_dashboard_data, lines 339-396
DashboardBuild ==
    /\ rpc = "L339"
    /\ response' = Reply("dashboard", 200,
                         [success |-> TRUE,
                          data |-> DashboardData(data, high_performance_messages,
                                                 performance_patterns,
                                                 aggregated_high_performance)])
    /\ lastOp' = "dashboard"
    /\ rpc' = "idle"
    /\ WriterQuiet

\* handle_generate, lines 152-153
GenerateCheck ==
    /\ rpc = "idle"
    /\ IF ~analysis_complete
       THEN /\ response' = Reply("generate", 500, IngestFirst)
            /\ lastOp' = "generate"
            /\ UNCHANGED rpc
       ELSE /\ rpc' = "L174"
            /\ UNCHANGED <<response, lastOp>>
    /\ WriterQuiet

\* handle_generate, lines 174-209
GenerateBuild(body, llm) ==
    /\ rpc = "L174"
    /\ response' \in GenerateReplies(Self, body, llm)
    /\ lastOp' = "generate"
    /\ rpc' = "idle"
    /\ WriterQuiet

NextThreads ==
    \/ \E rows \in ThreadDatasets : \E now \in NowsFor(rows) : UploadBegin(Csv(rows), now)
    \/ \E now \in NowsFor(<<>>) : UploadBegin(NoContent, now)
    \/ ClearHighPerformance
    \/ ClearPatterns
    \/ ClearComplete
    \/ RowStep
    \/ RowsDone
    \/ AnalyzeHighPerformance
    \/ AnalyzeCriteria
    \/ AnalyzeAggregate
    \/ AnalyzePatterns
    \/ MarkComplete
    \/ DashboardCheck
    \/ DashboardBuild
    \/ GenerateCheck
    \/ \E llm \in llm_outcomes : GenerateBuild(EmptyDict, llm)

SpecThreads == Init /\ [][NextThreads]_vars

----------------------------------------------------------------------------
(* message_ai_generator.py: MessageAIGenerator                               *)
(*                                                                            *)
(* A message is its words joined by single blanks.  Korean words are written  *)
(* by an English name; WordLen gives the characters of the original, Parts    *)
(* the listed words a word holds as substrings.  A predicted click rate is an *)
(* integer number of tenths of a percent.                                     *)

\* the glyphs of the character class of line 68
emoji_set == {"emoji_party", "emoji_money", "emoji_point", "emoji_house", "emoji_cash",
              "emoji_gift", "emoji_megaphone", "emoji_letter", "emoji_car", "emoji_bolt",
              "emoji_bell", "emoji_siren", "emoji_gem", "emoji_fire", "emoji_speaker",
              "emoji_target", "emoji_hand"}

\* len(word); a mark or suffix written against the word before it ("!", "'s",
\* "if_so?") counts one less, the blank that joins it being one of its characters
WordLen(word) ==
    CASE word = "!" -> 0
      [] word \in emoji_set \cup {"emoji_smile", "soon", "more", "pad1", "-", "'s", "two",
                                  "times", "end"} -> 1
      [] word \in {"today_only", "hurry", "last", "miss", "time", "timing", "anytime",
                   "slowly", "point", "lease", "capital", "difficulty", "info_obj",
                   "dont_miss", "in_detail", "solution", "one_percent", "two_percent"} -> 3
      [] word \in {"(ad)", "closing_soon", "switch", "credit_loan", "credit_score",
                   "refinance_loan", "confirm_it", "apply_it", "compare_it", "apply_and",
                   "confirm_and", "solution_is", "exists.", "if_so?"} -> 4
      [] word \in {"right_now", "lease_loan", "congrats_to_you", "please_check",
                   "amount_1m", "amount_5m"} -> 5
      [] word \in {"mortgage_loan", "please_confirm"} -> 6
      [] word = "pad9" -> 9
      [] OTHER -> 2

\* the listed words that are substrings of a word
Parts(word) ==
    CASE word = "closing_soon" -> {"closing_soon", "closing"}
      [] word = "right_now" -> {"right_now", "now", "right_away"}
      [] word \in {"confirm_it", "confirm_and", "please_check", "please_confirm"}
           -> {word, "confirm"}
      [] word \in {"apply_it", "apply_and"} -> {word, "apply"}
      [] word = "compare_it" -> {"compare_it", "compare"}
      [] word = "info_obj" -> {"info_obj", "info"}
      [] word = "congrats_to_you" -> {"congrats_to_you", "congrats"}
      [] word = "credit_loan" -> {"credit_loan", "credit", "loan"}
      [] word = "credit_score" -> {"credit_score", "credit"}
      [] word = "mortgage_loan" -> {"mortgage_loan", "housing", "loan"}
      [] word = "lease_loan" -> {"lease_loan", "lease", "loan"}
      [] word = "refinance_loan" -> {"refinance_loan", "refinance", "loan"}
      [] OTHER -> {word}

\* the listed words that are substrings of the message
WordsIn(message) == UNION {Parts(message[i]) : i \in 1..Len(message)}

\* keyword in message
Has(message, keyword) == keyword \in WordsIn(message)

\* len(message)
TextLen(message) ==
    IF message = <<>> THEN 0
    ELSE SumSeq([i \in 1..Len(message) |-> WordLen(message[i])]) + Len(message) - 1

\* lines 81-85, in the order of the dict
urgency_keywords ==
    <<[level |-> "high", keywords |-> {"today_only", "closing_soon", "limited", "urgent",
                                       "hurry", "last", "right_now", "miss"}],
      [level |-> "medium", keywords |-> {"soon", "fast", "time", "chance", "timing"}],
      [level |-> "low", keywords |-> {"anytime", "slowly", "confirm"}]>>

\* lines 95-99
benefit_keywords ==
    <<[level |-> "high", keywords |-> {"max", "lowest", "special_price", "benefit",
                                       "discount", "free", "reward", "point"}],
      [level |-> "medium", keywords |-> {"good", "more", "saving", "gain"}],
      [level |-> "low", keywords |-> {"notice", "info", "confirm"}]>>

\* lines 87-90 and 101-104: the first level one of whose keywords is in the message,
\* found being the listed words in the message
RECURSIVE LevelOf(_, _)
LevelOf(found, levels) ==
    IF levels = <<>> THEN "none"
    ELSE IF Head(levels).keywords \cap found # {} THEN Head(levels).level
    ELSE LevelOf(found, Tail(levels))

calculate_urgency_level(message) == LevelOf(WordsIn(message), urgency_keywords)

calculate_benefit_level(message) == LevelOf(WordsIn(message), benefit_keywords)

\* lines 108-110
all_keywords == <<"rate", "limit", "loan", "compare", "preferential", "benefit", "point",
                  "discount", "support", "max", "lowest", "special_price", "limited",
                  "credit", "housing", "lease", "switch", "lookup", "confirm", "apply",
                  "approval", "interest", "capital", "bank">>

\* line 112
KeywordsAmong(found) == SelectSeq(all_keywords, LAMBDA keyword : keyword \in found)

\* lines 106-113
extract_keywords(message) == KeywordsAmong(WordsIn(message))

\* lines 117-126
ToneAmong(found) ==
    IF {"congrats", "emoji_party", "benefit", "special_price", "chance"} \cap found # {}
    THEN "promotional"
    ELSE IF {"urgent", "closing", "hurry", "today_only"} \cap found # {} THEN "urgent"
    ELSE IF {"confirm", "info", "notice", "lookup"} \cap found # {} THEN "informational"
    ELSE IF {"worry", "burden", "difficulty"} \cap found # {} THEN "empathetic"
    ELSE "neutral"

\* lines 115-126
classify_tone(message) == ToneAmong(WordsIn(message))

\* lines 66-78; of the features, those that matching and prediction read
FeaturesOf(length, found) ==
    [length        |-> length,
     has_emoji     |-> emoji_set \cap found # {},
     urgency_level |-> LevelOf(found, urgency_keywords),
     benefit_level |-> LevelOf(found, benefit_keywords),
     keywords      |-> KeywordsAmong(found),
     tone          |-> ToneAmong(found)]

\* lines 64-79
extract_message_features(message) == FeaturesOf(TextLen(message), WordsIn(message))

\* line 453: 8.5
base_score == 85

high_perf_keywords == {"benefit", "max", "discount"}

\* variant of line 457 with 5 for each keyword instead of 2
KeywordBonusOfFive(features) ==
    50 * Len(SelectSeq(features.keywords, LAMBDA keyword : keyword \in high_perf_keywords))

\* lines 456-457
KeywordBonus(features) ==
    20 * Len(SelectSeq(features.keywords, LAMBDA keyword : keyword \in high_perf_keywords))

\* line 460
EmojiPenalty(features) == IF features.has_emoji THEN -20 ELSE 0

\* the length bonus with 30 < length < 50 for 30 <= length <= 50
LengthScoreStrict(features) ==
    IF 30 < features.length /\ features.length < 50 THEN 10
    ELSE IF features.length > 60 THEN -10
    ELSE 0

\* lines 463-467
LengthScore(features) ==
    IF 30 <= features.length /\ features.length <= 50 THEN 10
    ELSE IF features.length > 60 THEN -10
    ELSE 0

\* line 470
UrgencyBonus(features) == IF features.urgency_level = "high" THEN 10 ELSE 0

\* the clamp with a lower limit of 30.0 for 3.0: max(30.0, min(20.0, predicted_rate))
ClampedFrom30(predicted_rate) ==
    IF (IF predicted_rate > 200 THEN 200 ELSE predicted_rate) < 300 THEN 300
    ELSE IF predicted_rate > 200 THEN 200 ELSE predicted_rate

\* line 473: max(3.0, min(20.0, predicted_rate))
Clamped(predicted_rate) ==
    IF predicted_rate > 200 THEN 200 ELSE IF predicted_rate < 30 THEN 30 ELSE predicted_rate

\* lines 472-484; round(.., 1) keeps a number of tenths as it is
Predicted(features) ==
    [predicted_click_rate |->
         Clamped(base_score + KeywordBonus(features) + EmojiPenalty(features)
                   + LengthScore(features) + UrgencyBonus(features)),
     confidence |-> 85,
     factors |-> [keywords |-> KeywordBonus(features), emoji |-> EmojiPenalty(features),
                  length |-> LengthScore(features), urgency |-> UrgencyBonus(features)]]

\* lines 447-484
predict_performance(message, input) == Predicted(extract_message_features(message))

(* Match scores are IEEE doubles.  A double near k/10 is written [k, e]: the *)
(* value k/10 + e * 2^-56 / 5.  In these units k/10 is k * 2^55, and 2^55 is *)
(* 128 modulo 320, so whether [k, e] is a double, and whether its mantissa   *)
(* is even, is read off (128 * k + e) modulo the spacing of the doubles.     *)

\* the spacing of the doubles around k/10 + e, in units of 2^-56 / 5
Ulp(k, e) ==
    IF k <= 1 THEN 5
    ELSE IF k = 2 THEN 10
    ELSE IF k <= 4 \/ (k = 5 /\ e < 0) THEN 20
    ELSE IF k <= 9 \/ (k = 10 /\ e < 0) THEN 40
    ELSE IF k <= 19 \/ (k = 20 /\ e < 0) THEN 80
    ELSE 160

Float(k, e) == [k |-> k, e |-> e]

\* round to nearest double, halves to the even mantissa
RoundedWith(k, e, ulp, r) ==
    IF r = 0 THEN Float(k, e)
    ELSE IF 2 * r < ulp THEN Float(k, e - r)
    ELSE IF 2 * r > ulp THEN Float(k, e - r + ulp)
    ELSE IF (128 * k + e - r) % (2 * ulp) = 0 THEN Float(k, e - r)
    ELSE Float(k, e - r + ulp)

FRound(k, e) ==
    IF k = 0 THEN Float(0, 0) ELSE RoundedWith(k, e, Ulp(k, e), (128 * k + e) % Ulp(k, e))

\* a + b
FAdd(a, b) == FRound(a.k + b.k, a.e + b.e)

\* n * a for an int n
FTimes(n, a) == FRound(n * a.k, n * a.e)

\* a > b
FGreater(a, b) == a.k > b.k \/ (a.k = b.k /\ a.e > b.e)

\* the literals 0.0, 0.1, 0.2, 0.3, 0.4 and 1.0
F0 == Float(0, 0)

F01 == Float(1, 2)

F02 == Float(2, 4)

F03 == Float(3, -4)

F04 == Float(4, 8)

F1 == Float(10, 0)

\* int(s) of a string: blanks around, an optional sign, digits
PyIntOfStr(s) ==
    IF IsDigit(Unsign(Strip(s)))
    THEN FloatOk(IF Strip(s)[1] = "-" THEN 0 - IntOfDigits(Unsign(Strip(s)))
                 ELSE IntOfDigits(Unsign(Strip(s))))
    ELSE FloatError

\* lines 35-41: one row of the file, <<>> when a conversion raises
LoadedRow(row, rate, sent, clicked) ==
    IF rate.ok /\ sent.ok /\ clicked.ok
    THEN <<[service |-> row.service, message |-> row.message, clickRate |-> rate.val,
            sentCount |-> sent.val, clickCount |-> clicked.val]>>
    ELSE <<>>

\* lines 31-41
RECURSIVE load_data(_)
load_data(csv_file) ==
    IF csv_file = <<>> THEN <<>>
    ELSE LoadedRow(Head(csv_file), PyFloat(Head(csv_file).clickRate),
                   PyIntOfStr(Head(csv_file).sentCount), PyIntOfStr(Head(csv_file).clickCount))
         \o load_data(Tail(csv_file))

\* lines 56-60
PatternFrom(features, row) ==
    [length |-> features.length, has_emoji |-> features.has_emoji,
     urgency_level |-> features.urgency_level, benefit_level |-> features.benefit_level,
     keywords |-> features.keywords, tone |-> features.tone,
     original_message |-> row.message, click_rate |-> row.clickRate, service |-> row.service]

PatternOf(row) == PatternFrom(extract_message_features(row.message), row)

\* lines 43-62: the dict as the sequence of its items, in insertion order
analyze_message_patterns(rows) ==
    LET services == DistinctInOrder([i \in 1..Len(rows) |-> rows[i].service])
    IN  [s \in 1..Len(services) |->
            [service |-> services[s],
             patterns |-> LET mine == SelectSeq(rows, LAMBDA row : row.service = services[s])
                          IN  [i \in 1..Len(mine) |-> PatternOf(mine[i])]]]

\* lines 223-225
KeywordScore(pattern, user_keywords) ==
    IF user_keywords = <<>> THEN F0
    ELSE FAdd(F0, FTimes(Cardinality({pattern.keywords[i] : i \in 1..Len(pattern.keywords)}
                                       \cap {user_keywords[i] : i \in 1..Len(user_keywords)}),
                         F03))

PlusIf(score, fired, weight) == IF fired THEN FAdd(score, weight) ELSE score

FMin(a, b) == IF FGreater(a, b) THEN b ELSE a

\* lines 216-242
calculate_match_score(pattern, input) ==
    FMin(PlusIf(PlusIf(PlusIf(PlusIf(KeywordScore(pattern, Get(input, "keywords", <<>>)),
                                     Get(input, "tone", "None") = pattern.tone, F04),
                              Get(input, "urgency", "none") = pattern.urgency_level, F02),
                       Get(input, "benefit_level", "none") = pattern.benefit_level, F02),
                pattern.click_rate > 10 * RateScale, F01),
         F1)

\* lines 143-185: the tones of tone_patterns
tone_names == {"promotional", "urgent", "informational", "empathetic"}

\* tone_patterns[tone]['description']
ToneDescription(tone) ==
    CASE tone = "promotional" -> "benefit_style"
      [] tone = "urgent" -> "urgency_style"
      [] tone = "informational" -> "information_style"
      [] tone = "empathetic" -> "empathy_style"

\* f"{click_rate:.1f}", in tenths of a percent; the rates of the files below
\* have one decimal at most, so no digit is rounded away
OneDecimal(click_rate) == (click_rate + RateScale \div 20) \div (RateScale \div 10)

\* one reason: the rule it names and what it names of it
Reason(rule, of) == <<[rule |-> rule, of |-> of]>>

\* lines 249-268: the reasons in the order they are appended.  The keyword
\* reason names the set of matched keywords (joined in the set's iteration
\* order), the tone reason the description of the tone or the tone itself.
ReasonsOf(pattern, matched_keywords, tone, description) ==
    (IF matched_keywords # {} THEN Reason("keywords", matched_keywords) ELSE <<>>)
    \o (IF tone = pattern.tone
        THEN Reason("tone", IF pattern.tone \in tone_names THEN ToneDescription(pattern.tone)
                            ELSE pattern.tone)
        ELSE <<>>)
    \o (IF pattern.click_rate > 10 * RateScale
        THEN Reason("high_performance", OneDecimal(pattern.click_rate)) ELSE <<>>)
    \o (IF pattern.urgency_level = "high" /\ Has(description, "urgent")
        THEN Reason("urgency_requirement", "reflected") ELSE <<>>)
    \o (IF pattern.benefit_level = "high" /\ Has(description, "benefit")
        THEN Reason("benefit_requirement", "reflected") ELSE <<>>)

general_pattern == Reason("general_pattern", "matching")

OrGeneral(reasons) == IF reasons # <<>> THEN reasons ELSE general_pattern

\* lines 244-270
explain_match_reasons(pattern, input) ==
    OrGeneral(ReasonsOf(pattern,
                        {pattern.keywords[i] : i \in 1..Len(pattern.keywords)}
                           \cap {Get(input, "keywords", <<>>)[i] :
                                    i \in 1..Len(Get(input, "keywords", <<>>))},
                        Get(input, "tone", "None"),
                        Get(input, "description", <<>>)))

\* lines 203-210: the result for one pattern, nothing when the score is not above 0.3
MatchWith(pattern, score, reasons) ==
    IF FGreater(score, F03)
    THEN <<[message |-> pattern.original_message, score |-> score,
            click_rate |-> pattern.click_rate, service |-> pattern.service,
            reasons |-> reasons]>>
    ELSE <<>>

RECURSIVE MatchesIn(_, _)
MatchesIn(patterns, input) ==
    IF patterns = <<>> THEN <<>>
    ELSE MatchWith(Head(patterns), calculate_match_score(Head(patterns), input),
                   explain_match_reasons(Head(patterns), input))
         \o MatchesIn(Tail(patterns), input)

\* lines 198-211: service by service
RECURSIVE MatchesOf(_, _)
MatchesOf(items, input) ==
    IF items = <<>> THEN <<>>
    ELSE (IF Get(input, "service", "") # "" /\ Get(input, "service", "") \notin Parts(Head(items).service)
          THEN <<>>
          ELSE MatchesIn(Head(items).patterns, input))
         \o MatchesOf(Tail(items), input)

\* the key of line 213: (score, click_rate)
KeyAtLeast(a, b) ==
    \/ FGreater(a.score, b.score)
    \/ a.score = b.score /\ a.click_rate >= b.click_rate

\* the item goes behind the items whose key is at least its own
InsertByKey(sorted, item) ==
    LET k == Cardinality({p \in 1..Len(sorted) : KeyAtLeast(sorted[p], item)})
    IN  SubSeq(sorted, 1, k) \o <<item>> \o SubSeq(sorted, k + 1, Len(sorted))

\* list.sort(key=..., reverse=True): descending, equal keys keep their order
RECURSIVE SortedByKey(_)
SortedByKey(matches) ==
    IF matches = <<>> THEN <<>>
    ELSE InsertByKey(SortedByKey(SubSeq(matches, 1, Len(matches) - 1)), matches[Len(matches)])

\* lines 187-214
find_matching_messages(patterns, input) == Prefix(SortedByKey(MatchesOf(patterns, input)), 5)

\* lines 143-185: the templates of each tone, filled with the phrases
ToneTemplate(tone, t, service, benefit, action, problem) ==
    CASE tone = "promotional" ->
           <<<<"emoji_party">> \o benefit \o service \o <<"!">> \o action,
             <<"emoji_money", "special", "benefit", "!">> \o benefit \o action,
             <<"congrats_to_you", "!">> \o benefit \o action>>[t]
      [] tone = "urgent" ->
           <<<<"emoji_bolt", "urgent", "!">> \o benefit \o action,
             <<"emoji_fire", "closing_soon", "!">> \o benefit \o action,
             <<"today_only", "!">> \o benefit \o action>>[t]
      [] tone = "informational" ->
           <<service \o <<"info_obj", "please_confirm">>,
             benefit \o <<"notice", "-">> \o action,
             service \o <<"terms", "confirm_it">>>>[t]
      [] tone = "empathetic" ->
           <<problem \o <<"solution_is", "exists.">> \o action,
             problem \o <<"if_so?">> \o benefit \o action,
             problem \o <<"worry", "end", "!">> \o action>>[t]

\* self.tone_patterns.get(tone, self.tone_patterns['promotional']) and the like
KnownOr(tone) == IF tone \in tone_names THEN tone ELSE "promotional"

\* lines 364-371
BenefitType(words) ==
    IF \E i \in 1..Len(words) : words[i] = "rate" THEN <<"rate", "discount">>
    ELSE IF \E i \in 1..Len(words) : words[i] = "limit" THEN <<"limit", "raise">>
    ELSE IF \E i \in 1..Len(words) : words[i] = "point" THEN <<"point", "reward">>
    ELSE <<"benefit">>

amounts == <<"amount_1m", "amount_5m", "two_percent", "one_percent">>

\* lines 354-379; t and a are the draws of random.choice
BenefitPhrase(tone, type, t, a) ==
    CASE tone = "promotional" ->
           <<<<"max", amounts[a], "benefit">>,
             <<"special">> \o type \o <<"offer">>,
             type \o <<"two", "times", "benefit">>>>[t]
      [] tone = "urgent" ->
           <<<<"limited">> \o type, <<"closing_soon">> \o type, <<"today_only">> \o type>>[t]
      [] tone = "informational" ->
           <<type \o <<"notice">>, type \o <<"info">>, type \o <<"terms">>>>[t]
      [] tone = "empathetic" ->
           <<type \o <<"burden", "solve">>, type \o <<"worry", "solve">>,
             <<"more", "better">> \o type>>[t]

generate_benefit_phrase(words, tone, t, a) == BenefitPhrase(KnownOr(tone), BenefitType(words), t, a)

\* lines 381-391
ActionPhrase(tone, t) ==
    CASE tone = "promotional" ->
           <<<<"right_now", "confirm_it", "emoji_point">>,
             <<"benefit", "receive", "emoji_money">>,
             <<"apply_and", "benefit", "receive">>>>[t]
      [] tone = "urgent" ->
           <<<<"hurry", "confirm_it", "emoji_bolt">>,
             <<"dont_miss", "without", "confirm">>,
             <<"right_now", "apply">>>>[t]
      [] tone = "informational" ->
           <<<<"in_detail", "confirm_it">>, <<"terms", "confirm_it">>,
             <<"info", "confirm_it">>>>[t]
      [] tone = "empathetic" ->
           <<<<"solution", "confirm_it">>, <<"consult", "receive">>,
             <<"tailored", "product", "find">>>>[t]

generate_action_phrase(tone, t) == ActionPhrase(KnownOr(tone), t)

\* lines 393-401
generate_problem_phrase(target, t) ==
    <<<<target, "'s", "rate", "burden">>, <<target, "'s", "limit", "shortage">>,
      <<target, "'s", "loan", "worry">>, <<target, "'s", "interest", "burden">>>>[t]

\* the outcomes of the random.choice calls of one generate_by_tone
Draws == [template : 1..3, benefit : 1..3, amount : 1..4, action : 1..3, problem : 1..4]

\* lines 316-352
generate_by_tone(input, tone, draw) ==
    [message |->
        ToneTemplate(KnownOr(tone), draw.template, <<Get(input, "service", "loan")>>,
                     generate_benefit_phrase(Get(input, "keywords", <<>>), tone,
                                             draw.benefit, draw.amount),
                     generate_action_phrase(tone, draw.action),
                     generate_problem_phrase(Get(input, "target_audience", "customer"),
                                             draw.problem)),
     reason |-> [style |-> ToneDescription(KnownOr(tone)),
                 keywords |-> Prefix(Get(input, "keywords", <<>>), 2),
                 target |-> Get(input, "target_audience", "customer")]]

\* lines 409-414: the first request keyword that is a high-performance keyword
RECURSIVE SelectedKeyword(_)
SelectedKeyword(words) ==
    IF words = <<>> THEN "benefit"
    ELSE IF Head(words) \in high_perf_keywords THEN Head(words)
    ELSE SelectedKeyword(Tail(words))

\* lines 417-423
HighPerformancePattern(selected_keyword, service, t) ==
    <<<<"(ad)", selected_keyword, "confirm_and", service, "receive">>,
      <<"(ad)", service, selected_keyword, "now", "please_check">>,
      <<"(ad)", "max", selected_keyword, service, "apply_it">>>>[t]

\* lines 403-430
generate_high_performance_message(input, t) ==
    [message |-> HighPerformancePattern(SelectedKeyword(Get(input, "keywords", <<>>)),
                                        Get(input, "service", "loan"), t),
     reason |-> [keyword |-> SelectedKeyword(Get(input, "keywords", <<>>))]]

\* lines 432-445
AlternativeFor(current_tone, service) ==
    IF "credit_score" \in Parts(service) THEN "informational"
    ELSE IF "refinance" \in Parts(service) THEN "empathetic"
    ELSE IF "housing" \in Parts(service) THEN "promotional"
    ELSE IF current_tone # "urgent" THEN "urgent" ELSE "promotional"

suggest_alternative_tone(input) ==
    AlternativeFor(Get(input, "tone", "promotional"), Get(input, "service", ""))

\* one entry of the list generate_new_messages returns
Candidate(generated, tone, input) ==
    [message |-> generated.message, tone |-> tone, reason |-> generated.reason,
     predicted_performance |-> predict_performance(generated.message, input)]

\* lines 283-290
RequestedTone(input, tone, draw) ==
    IF tone \in tone_names THEN <<Candidate(generate_by_tone(input, tone, draw), tone, input)>>
    ELSE <<>>

\* lines 302-310 with the alternative left out when the requested tone is unknown
AlternativeToneOfKnown(input, tone, alternative_tone, draw) ==
    IF alternative_tone # tone /\ tone \in tone_names
    THEN <<Candidate(generate_by_tone(input, alternative_tone, draw), alternative_tone, input)>>
    ELSE <<>>

\* lines 302-310
AlternativeTone(input, tone, alternative_tone, draw) ==
    IF alternative_tone # tone
    THEN <<Candidate(generate_by_tone(input, alternative_tone, draw), alternative_tone, input)>>
    ELSE <<>>

\* lines 272-312; first, pattern and second are the draws of random.choice
generate_new_messages(input, first, pattern, second) ==
    RequestedTone(input, Get(input, "tone", "promotional"), first)
    \o <<Candidate(generate_high_performance_message(input, pattern), "high_performance", input)>>
    \o AlternativeTone(input, Get(input, "tone", "promotional"),
                       suggest_alternative_tone(input), second)

----------------------------------------------------------------------------
(* A MessageAIGenerator constructed from a CSV file, and calls of its methods *)

MaxTextLen == 61

MaxCorpus == 7

GenRow(service, text, rate, sent, clicked) ==
    [service |-> service, message |-> text, clickRate |-> rate, sentCount |-> sent,
     clickCount |-> clicked]

\* pad words up to n characters
RECURSIVE Padded(_, _)
Padded(text, n) ==
    IF n - TextLen(text) <= 1 THEN text
    ELSE IF n - TextLen(text) >= 12 \/ n - TextLen(text) = 10 THEN Padded(Append(text, "pad9"), n)
    ELSE IF (n - TextLen(text)) % 2 = 1 THEN Padded(Append(text, "pad2"), n)
    ELSE Padded(Append(text, "pad1"), n)

\* the lengths around the limits of lines 464-467
TextLens == {0, 29, 30, 50, 51, 60, MaxTextLen}

BonusWords == {<<>>, <<"benefit">>, <<"max">>, <<"discount">>, <<"benefit", "max">>,
               <<"max", "discount">>, <<"benefit", "benefit">>, <<"rate", "discount">>,
               <<"benefit", "discount", "max">>}

ScoreMessages ==
    {Padded(<<"(ad)">> \o words \o emoji \o urgency, n) :
        words \in BonusWords,
        emoji \in {<<>>, <<"emoji_party">>, <<"emoji_smile">>},
        urgency \in {<<>>, <<"today_only">>, <<"soon">>},
        n \in TextLens}

\* the file of debug_csv.py, with click counts
CorpusSample ==
    <<GenRow("credit_loan", <<"(ad)", "benefit", "confirm">>, <<"1", "2", ".", "5">>,
             <<"3", "0">>, <<"4">>),
      GenRow("mortgage_loan", <<"(ad)", "rate", "compare">>, <<"8", ".", "3">>,
             <<"1", "0", "0">>, <<"8">>)>>

\* rows of two services in turn; the last two agree in rate and in features
CorpusInterleaved ==
    <<GenRow("credit_loan", <<"(ad)", "today_only", "rate", "discount">>, <<"9">>,
             <<"1", "0">>, <<"1">>),
      GenRow("mortgage_loan", <<"(ad)", "rate", "compare">>, <<"1", "2">>,
             <<"1", "0">>, <<"1">>),
      GenRow("credit_loan", <<"(ad)", "rate", "limit">>, <<"1", "2">>,
             <<"1", "0">>, <<"1">>)>>

\* rows that differ in click rate only
CorpusLarge ==
    [i \in 1..MaxCorpus |->
        GenRow("credit_loan", <<"(ad)", "rate", "compare">>, <<"1", CHOOSE c \in Digits : DigitVal(c) = i % 10>>,
               <<"1", "0">>, <<"1">>)]

\* rows whose conversion raises, and one that loads
CorpusBroken ==
    <<GenRow("credit_loan", <<"(ad)", "benefit", "confirm">>, <<"a", "b", "c">>,
             <<"1", "0">>, <<"1">>),
      GenRow("credit_loan", <<"(ad)", "rate", "compare">>, <<"1", "1">>,
             <<"1", ",", "0", "0", "0">>, <<"1">>),
      GenRow("bank", <<"(ad)", "benefit", "today_only">>, <<"1", "0", ".", "5">>,
             <<"1", "0">>, <<>>),
      GenRow("credit_loan", <<"(ad)", "benefit", "rate">>, <<"1", "0", ".", "5">>,
             <<" ", "2", "0">>, <<"3">>)>>

Corpora == {CorpusSample, CorpusInterleaved, CorpusLarge, CorpusBroken}

MatchRequests ==
    {k @@ t @@ u @@ b @@ s @@ d :
        k \in Opt("keywords", {<<>>, <<"rate">>, <<"rate", "compare">>, <<"benefit">>,
                               <<"rate", "discount", "benefit">>}),
        t \in Opt("tone", {"promotional", "urgent", "neutral"}),
        u \in Opt("urgency", {"none", "high", "low"}),
        b \in Opt("benefit_level", {"none", "high"}),
        s \in Opt("service", {"", "loan", "credit_loan"}),
        d \in Opt("description", {<<"urgent", "benefit", "please">>})}

GenerateRequests ==
    {t @@ s @@ k :
        t \in Opt("tone", {"promotional", "urgent", "informational", "empathetic", "neutral"}),
        s \in Opt("service", {"credit_score", "refinance_loan", "mortgage_loan", "credit_loan"}),
        k \in Opt("keywords", {<<"rate", "max">>})}

Draw(template, benefit, amount, action, problem) ==
    [template |-> template, benefit |-> benefit, amount |-> amount, action |-> action,
     problem |-> problem]

\* the outcomes of random.choice that are taken
TakenDraws == {Draw(t, t, t + 1, t, t + 1) : t \in 1..3}

\* MessageAIGenerator(csv_file): lines 19-28
Constructed(csv_file) ==
    /\ gen_data = load_data(csv_file)
    /\ message_patterns = analyze_message_patterns(load_data(csv_file))
    /\ returned = NotCalled

Returned(call, result) == [call |-> call, result |-> result]

PredictPerformance ==
    /\ returned' = Returned("predict_performance", predict_performance(candidate_text, user_input))
    /\ UNCHANGED <<engine, response, lastOp, lastCsv, everSucceeded, again, pc, job, rpc,
                   gen_data, message_patterns, user_input, candidate_text, csv_row,
                   settings>>

FindMatchingMessages ==
    /\ returned' = Returned("find_matching_messages",
                            find_matching_messages(message_patterns, user_input))
    /\ UNCHANGED <<engine, response, lastOp, lastCsv, everSucceeded, again, pc, job, rpc,
                   gen_data, message_patterns, user_input, candidate_text, csv_row,
                   settings>>

\* calculate_match_score on one of the analysed patterns and the request; the
\* argument is kept next to the result
CalculateMatchScore(pattern) ==
    /\ returned' = Returned("calculate_match_score",
                            [pattern |-> pattern,
                             score |-> calculate_match_score(pattern, user_input)])
    /\ UNCHANGED <<engine, response, lastOp, lastCsv, everSucceeded, again, pc, job, rpc,
                   gen_data, message_patterns, user_input, candidate_text, csv_row,
                   settings>>

GenerateNewMessages(first, pattern, second) ==
    /\ returned' = Returned("generate_new_messages",
                            generate_new_messages(user_input, first, pattern, second))
    /\ UNCHANGED <<engine, response, lastOp, lastCsv, everSucceeded, again, pc, job, rpc,
                   gen_data, message_patterns, user_input, candidate_text, csv_row,
                   settings>>

\* predict_performance on a text
InitScore ==
    /\ ServerInit
    /\ Constructed(CorpusSample)
    /\ user_input = EmptyDict
    /\ candidate_text \in ScoreMessages
    /\ csv_row = EmptyDict

NextScore == PredictPerformance

SpecScore == InitScore /\ [][NextScore]_vars

\* find_matching_messages on a request
InitMatch ==
    /\ ServerInit
    /\ \E csv_file \in Corpora : Constructed(csv_file)
    /\ user_input \in MatchRequests
    /\ candidate_text = <<>>
    /\ csv_row = EmptyDict

NextMatch ==
    \/ FindMatchingMessages
    \/ \E s \in 1..Len(message_patterns) : \E i \in 1..Len(message_patterns[s].patterns) :
          CalculateMatchScore(message_patterns[s].patterns[i])

SpecMatch == InitMatch /\ [][NextMatch]_vars

\* the attributes of an analyzer, as the state
Holds(self) ==
    /\ data = self.data
    /\ high_performance_messages = self.high_performance_messages
    /\ performance_patterns = self.performance_patterns
    /\ analysis_complete = self.analysis_complete
    /\ high_performance_criteria = self.high_performance_criteria
    /\ aggregated_high_performance = self.aggregated_high_performance

\* the server after its first upload, which analyze_uploaded_csv answered with out
Uploaded(out, rows, now) ==
    /\ Holds(out.self)
    /\ response = Reply("upload", 200, out.result)
    /\ lastOp = "upload"
    /\ lastCsv = [rows |-> rows, now |-> now]
    /\ everSucceeded = out.result.success
    /\ again = FALSE
    /\ pc = "idle"
    /\ job = NoJob
    /\ rpc = "idle"
    /\ openai = "imported"
    /\ OPENAI_AVAILABLE = FALSE

\* the uploads generate_simulation works on
SimulationDatasets == {<<>>, <<RowA, RowB>>, <<RowHigh, RowHigh, RowLow>>}

\* the request as the upload server's client writes it: the service is a cell
SimulationBody(input) ==
    IF Get(input, "service", "") = "" THEN EmptyDict ELSE "service" :> <<input.service>>

\* UploadHTTPRequestHandler.generate_simulation on the analyzer and a request
GenerateSimulation ==
    /\ \E generated \in generate_simulation(Self, UserRequest(SimulationBody(user_input))) :
          returned' = Returned("generate_simulation", generated)
    /\ UNCHANGED <<engine, response, lastOp, lastCsv, everSucceeded, again, pc, job, rpc,
                   gen_data, message_patterns, user_input, candidate_text, csv_row,
                   settings>>

\* the two rule-based generators on a request: generate_new_messages of a
\* constructed MessageAIGenerator, generate_simulation after an upload
InitGenerate ==
    /\ \E rows \in SimulationDatasets :
          Uploaded(analyze_uploaded_csv(NewAnalyzer, rows, CHOOSE now \in NowsFor(rows) : TRUE),
                   rows, CHOOSE now \in NowsFor(rows) : TRUE)
    /\ Constructed(CorpusSample)
    /\ user_input \in GenerateRequests
    /\ candidate_text = <<>>
    /\ csv_row = EmptyDict

NextGenerate ==
    \/ \E first \in TakenDraws : \E pattern \in 1..3 : \E second \in TakenDraws :
          GenerateNewMessages(first, pattern, second)
    \/ GenerateSimulation

SpecGenerate == InitGenerate /\ [][NextGenerate]_vars

\* UploadAnalyzer.normalize_fields on a row of csv.DictReader
NormalizeFields ==
    /\ returned' = Returned("normalize_fields", normalize_fields(csv_row))
    /\ UNCHANGED <<engine, response, lastOp, lastCsv, everSucceeded, again, pc, job, rpc,
                   gen_data, message_patterns, user_input, candidate_text, csv_row,
                   settings>>

\* the columns a file may have: aliases of five fields and a column that is none
RawColumns ==
    {rate \cup text \cup day \cup other :
        rate \in SUBSET {"ko_clickRate", "CTR", "clickrate"},
        text \in SUBSET {"message", "content"},
        day \in SUBSET {"weekday", "day"},
        other \in SUBSET {"ko_service", "date", "memo"}}

\* a row of a file with these columns: each cell names its column, but the
\* cell of the first click rate alias is empty and the date is a date
RawRow(columns) ==
    [c \in columns |->
        IF c = "date" THEN Day("dash", 2025, 1, 8)
        ELSE IF c = "ko_clickRate" THEN <<>>
        ELSE <<c>>]

InitNormalize ==
    /\ ServerInit
    /\ gen_data = <<>>
    /\ message_patterns = <<>>
    /\ user_input = EmptyDict
    /\ candidate_text = <<>>
    /\ csv_row \in {RawRow(columns) : columns \in RawColumns}
    /\ returned = NotCalled

NextNormalize == NormalizeFields

SpecNormalize == InitNormalize /\ [][NextNormalize]_vars

----------------------------------------------------------------------------
(* Properties *)

\* History kept for the properties: lastOp names the last handler, lastCsv the
\* argument of the last analyze_uploaded_csv call, everSucceeded whether one has
\* returned success, again whether the last call repeated the rows of a
\* successful call right before it.

Snapshot == get_dashboard_data(Self)

\* what a new analyzer holds after one call with the last upload
FreshAfterLast == analyze_uploaded_csv(NewAnalyzer, lastCsv.rows, lastCsv.now).self

\* C1: an upload that yields no accepted row reports failure and leaves the
\* analyzer's attributes, and so the dashboard snapshot, as they were.
C1_EmptyIngestKeepsState ==
    [][(lastOp' = "upload" /\ ~response'.body.success)
         => (engine' = engine /\ Snapshot' = Snapshot)]_vars

\* C2: after a successful upload the dashboard snapshot is the one a new
\* analyzer gives after that upload alone.
C2_SnapshotAsFresh ==
    analysis_complete => Snapshot = get_dashboard_data(FreshAfterLast)

RECURSIVE CountSum(_, _)
CountSum(service_analysis, services) ==
    IF services = {} THEN 0
    ELSE LET service == CHOOSE x \in services : TRUE
         IN  service_analysis[service].count + CountSum(service_analysis, services \ {service})

C4_NoDataBeforeIngest ==
    ~everSucceeded =>
        /\ ~analysis_complete
        /\ response.kind \in {"dashboard", "generate"} => response.body = IngestFirst
        /\ response.kind = "generate" => response.status = 500

C4_Witness ==
    /\ ~everSucceeded
    /\ lastCsv.rows # <<>>
    /\ response.kind = "dashboard"

\* C5: uploading again the rows (with parseable dates) of the successful upload
\* before leaves every attribute of the analyzer as it was.
C5_ReingestIdempotent ==
    [][(lastOp' = "upload" /\ analysis_complete /\ lastCsv'.rows = lastCsv.rows
          /\ ~Undated(lastCsv.rows))
         => engine' = engine]_vars

C5_Witness ==
    /\ again
    /\ lastOp = "upload"
    /\ analysis_complete
    /\ ~Undated(lastCsv.rows)
    /\ aggregated_high_performance # <<>>

\* C6: every stored record has a click rate between 0 and 100.
C6_RateInRange ==
    \A i \in 1..Len(data) : data[i].clickRate >= 0 /\ data[i].clickRate <= 100 * RateScale

\* a non-negative decimal: digits with at most one point
ValidDecimal(s) == UnsignedFloat(s, PointAt(s)).ok

TrailingPercentCut(s) == IF s # <<>> /\ s[Len(s)] = "%" THEN SubSeq(s, 1, Len(s) - 1) ELSE s

\* C7: no row is rejected, and a row whose click rate is no non-negative decimal
\* is stored with click rate 0.
C7_BadRateAccepted ==
    /\ Len(data) = Len(lastCsv.rows)
    /\ \A i \in 1..Len(data) :
          ~ValidDecimal(TrailingPercentCut(Strip(normalize_fields(lastCsv.rows[i]).clickRate)))
             => data[i].clickRate = 0

PyRound(n, d) ==
    IF 2 * (n % d) < d THEN n \div d
    ELSE IF 2 * (n % d) > d THEN n \div d + 1
    ELSE IF (n \div d) % 2 = 0 THEN n \div d ELSE n \div d + 1

\* C9: an aggregate's total clicks is the sum of round(rate / 100 * sent) over
\* its occurrences, and its total click rate is total clicks / total sent * 100.
C9_RoundedClicks ==
    \A g \in 1..Len(aggregated_high_performance) :
        LET agg == aggregated_high_performance[g]
        IN  /\ agg.total_clicks =
                 SumSeq([i \in 1..Len(agg.occurrences) |->
                            PyRound(agg.occurrences[i].clickRate * agg.occurrences[i].sentCount,
                                    100 * RateScale)])
            /\ agg.total_sends > 0 =>
                 agg.total_click_rate = Round2(Rat(agg.total_clicks * 100 * RateScale, agg.total_sends))

RowsOf(service) == SelectSeq(data, LAMBDA row : row.service = service)

\* C10: after a successful upload overall_avg is the mean click rate of the
\* stored records, best_click_rate their maximum, and each service's entry
\* counts that service's records and averages their click rates.
C10_Averages ==
    analysis_complete =>
        /\ performance_patterns.overall_avg.num * Len(data)
              = performance_patterns.overall_avg.den * SumSeq(Rates(data))
        /\ \E i \in 1..Len(data) : data[i].clickRate = performance_patterns.best_click_rate
        /\ \A i \in 1..Len(data) : data[i].clickRate <= performance_patterns.best_click_rate
        /\ DOMAIN performance_patterns.service_analysis = {data[i].service : i \in 1..Len(data)}
        /\ \A service \in DOMAIN performance_patterns.service_analysis :
              LET entry == performance_patterns.service_analysis[service]
              IN  /\ entry.count = Len(RowsOf(service))
                  /\ entry.avg_click_rate.num * entry.count
                        = entry.avg_click_rate.den * SumSeq(Rates(RowsOf(service)))

\* two services, one of them with several records of different rates
C10_Witness ==
    /\ analysis_complete
    /\ Cardinality(DOMAIN performance_patterns.service_analysis) >= 2
    /\ \E i, j \in 1..Len(data) : 
          data[i].service = data[j].service /\ data[i].clickRate # data[j].clickRate

\* C11: the click rate predict_performance returns lies between 3.0 and 20.0.
C11_ScoreBounds ==
    returned.call = "predict_performance" =>
        /\ returned.result.predicted_click_rate >= 30
        /\ returned.result.predicted_click_rate <= 200

\* the lowest sum: an emoji, more than 60 characters, no bonus keyword, no urgency
C11_Witness ==
    /\ returned.call = "predict_performance"
    /\ returned.result.predicted_click_rate = 55
    /\ TextLen(candidate_text) > 60

\* how many of the three bonus keywords are in the text
BonusCount(txt) == Cardinality({keyword \in {"benefit", "max", "discount"} : Has(txt, keyword)})

\* the sum the formula names, in tenths of a percent
FormulaSum(txt) ==
    85 + 20 * BonusCount(txt)
       + (IF \E i \in 1..Len(txt) : txt[i] \in emoji_set THEN -20 ELSE 0)
       + (IF 30 <= TextLen(txt) /\ TextLen(txt) <= 50 THEN 10
          ELSE IF TextLen(txt) > 60 THEN -10 ELSE 0)
       + (IF calculate_urgency_level(txt) = "high" THEN 10 ELSE 0)

\* C12: predict_performance returns clamp(8.5 + 2 * bonus keywords in the text
\* - 2 for an emoji + 1 for a length of 30..50, - 1 for one above 60 + 1 for high
\* urgency, 3.0, 20.0).
C12_ScoreFormula ==
    returned.call = "predict_performance" =>
        returned.result.predicted_click_rate =
            (IF FormulaSum(candidate_text) > 200 THEN 200
             ELSE IF FormulaSum(candidate_text) < 30 THEN 30
             ELSE FormulaSum(candidate_text))

\* three bonus keywords, no emoji, 30 to 50 characters, no high urgency: 15.5
C12_Witness ==
    /\ returned.call = "predict_performance"
    /\ BonusCount(candidate_text) = 3
    /\ TextLen(candidate_text) = 30
    /\ \A i \in 1..Len(candidate_text) : candidate_text[i] \notin emoji_set
    /\ calculate_urgency_level(candidate_text) # "high"
    /\ returned.result.predicted_click_rate = 155

\* the sum of the rules that fire for a record and a request, in tenths
RuleSum(features, click_rate, input) ==
    3 * Cardinality({features.keywords[i] : i \in 1..Len(features.keywords)}
                      \cap {Get(input, "keywords", <<>>)[i] :
                               i \in 1..Len(Get(input, "keywords", <<>>))})
    + (IF Get(input, "tone", "None") = features.tone THEN 4 ELSE 0)
    + (IF Get(input, "urgency", "none") = features.urgency_level THEN 2 ELSE 0)
    + (IF Get(input, "benefit_level", "none") = features.benefit_level THEN 2 ELSE 0)
    + (IF click_rate > 10 * RateScale THEN 1 ELSE 0)

\* C13: every record find_matching_messages returns has fired rules that sum to
\* more than 0.3.
C13_MatchAboveThreshold ==
    returned.call = "find_matching_messages" =>
        \A i \in 1..Len(returned.result) :
            RuleSum(extract_message_features(returned.result[i].message),
                    returned.result[i].click_rate, user_input) > 3

\* where a returned record stands in the loaded file
PositionOf(match) ==
    CHOOSE p \in 1..Len(gen_data) :
        /\ gen_data[p].message = match.message
        /\ gen_data[p].service = match.service
        /\ gen_data[p].clickRate = match.click_rate

\* the loaded rows that qualify for the request
Qualifying ==
    {p \in 1..Len(gen_data) :
        /\ Get(user_input, "service", "") = ""
              \/ Get(user_input, "service", "") \in Parts(gen_data[p].service)
        /\ FGreater(calculate_match_score(PatternOf(gen_data[p]), user_input), F03)}

\* C14: find_matching_messages returns the first five (or fewer) qualifying
\* records by descending score, then descending click rate, then input order.
C14_MatchOrder ==
    returned.call = "find_matching_messages" =>
        /\ Len(returned.result) = (IF Cardinality(Qualifying) < 5 THEN Cardinality(Qualifying) ELSE 5)
        /\ \A i, j \in 1..Len(returned.result) :
              i < j =>
                 /\ KeyAtLeast(returned.result[i], returned.result[j])
                 /\ KeyAtLeast(returned.result[j], returned.result[i])
                       => PositionOf(returned.result[i]) < PositionOf(returned.result[j])

\* C15: once an upload has succeeded, a generate request is answered with the
\* rule-based candidates whenever the openai package is missing, the service is
\* not available, or the call to it raises.
C15_FallbackAlways ==
    [][\A body \in GenerateBodies : \A llm \in llm_outcomes :
          (/\ analysis_complete
           /\ HandleGenerate(body, llm)
           /\ (openai = "missing" \/ ~OPENAI_AVAILABLE \/ llm = "raises"))
          => /\ response'.status = 200
             /\ response'.body.success
             /\ response'.body.generated_messages
                   \in generate_simulation(Self, UserRequest(body))]_vars

\* C16: generate_new_messages returns two or three candidates, each labeled with
\* its tone, for every request; generate_simulation returns three labeled
\* candidates once an upload has succeeded.
C16_CandidateCount ==
    /\ returned.call = "generate_new_messages" =>
          /\ Len(returned.result) \in 2..3
          /\ \A i \in 1..Len(returned.result) :
                returned.result[i].tone \in tone_names \cup {"high_performance"}
    /\ (returned.call = "generate_simulation" /\ everSucceeded) =>
          /\ Len(returned.result) = 3
          /\ \A i \in 1..3 : returned.result[i].style \in {"benefit", "urgency", "personal"}

\* a tone the generator has no templates for: two candidates
C16_Witness ==
    /\ returned.call = "generate_new_messages"
    /\ "tone" \in DOMAIN user_input
    /\ user_input.tone \notin tone_names
    /\ Len(returned.result) = 2

\* the rows of an upload that process_row dropped
RejectedIn(csv) == Len(csv.rows) - Len(IngestRows(csv.rows, csv.now))

\* C17: the result of an upload tells how many rows were accepted and how many
\* were rejected: it reports the accepted count, and two successful uploads in
\* a row that are answered with the same result rejected equally many rows.
C17_RejectedObservable ==
    [][(/\ lastOp = "upload" /\ response.body.success
        /\ lastOp' = "upload" /\ response'.body.success)
         => /\ response'.body.total_messages = Len(IngestRows(lastCsv'.rows, lastCsv'.now))
            /\ response'.body = response.body => RejectedIn(lastCsv') = RejectedIn(lastCsv)]_vars

\* C18: the weekday of every stored record is one of the seven weekday labels,
\* and the per-weekday buckets count every record once.
C18_WeekdayEnum ==
    /\ \A i \in 1..Len(data) : \E d \in 1..Len(weekdays) : data[i].weekday = <<weekdays[d]>>
    /\ analysis_complete =>
          SumSeq([d \in 1..Len(weekdays) |->
                     performance_patterns.time_analysis[weekdays[d]].count]) = Len(data)

\* C19: no stored record has a negative sentCount or clickCount.
C19_CountsNotNegative ==
    \A i \in 1..Len(data) : data[i].sentCount >= 0 /\ data[i].clickCount >= 0

\* C20: the threshold of the high-performance set is max(overall_avg * 1.2, 8.0),
\* overall_avg being the reported mean over all records.
C20_ThresholdFromOverallAvg ==
    (analysis_complete /\ PositiveRates(data) # <<>>) =>
        RatEq(high_performance_criteria.threshold_rate,
              IF RatLT(Rat(performance_patterns.overall_avg.num * 6,
                           performance_patterns.overall_avg.den * 5), Rat(8 * RateScale, 1))
              THEN Rat(8 * RateScale, 1)
              ELSE Rat(performance_patterns.overall_avg.num * 6,
                       performance_patterns.overall_avg.den * 5))

\* the contributions of the five checks of lines 221-240 for a record and a
\* request, 0.0 for a check that does not fire
Contributions(pattern, input) ==
    <<KeywordScore(pattern, Get(input, "keywords", <<>>)),
      IF Get(input, "tone", "None") = pattern.tone THEN F04 ELSE F0,
      IF Get(input, "urgency", "none") = pattern.urgency_level THEN F02 ELSE F0,
      IF Get(input, "benefit_level", "none") = pattern.benefit_level THEN F02 ELSE F0,
      IF pattern.click_rate > 10 * RateScale THEN F01 ELSE F0>>

\* the orders the five checks can be made in
Orders == {order \in [1..5 -> 1..5] : \A i, j \in 1..5 : order[i] = order[j] => i = j}

\* the score that making the first n checks of an order adds up
RECURSIVE AddedIn(_, _, _)
AddedIn(terms, order, n) ==
    IF n = 0 THEN F0 ELSE FAdd(AddedIn(terms, order, n - 1), terms[order[n]])

\* C21: calculate_match_score returns a score between 0 and 1, and the score is
\* the clamped sum of the five contributions whatever order they are added in.
C21_ScoreOrderFree ==
    returned.call = "calculate_match_score" =>
        /\ ~FGreater(F0, returned.result.score)
        /\ ~FGreater(returned.result.score, F1)
        /\ \A order \in Orders :
              returned.result.score
                 = FMin(AddedIn(Contributions(returned.result.pattern, user_input), order, 5), F1)

\* the scoring rule a reason stands for
RuleOf(reason) ==
    CASE reason.rule = "urgency_requirement" -> "urgency"
      [] reason.rule = "benefit_requirement" -> "benefit_level"
      [] OTHER -> reason.rule

\* the scoring rules of lines 221-240 that fire for a record and a request, in
\* the order keyword overlap, tone, urgency, benefit level, performance
FiredRules(features, click_rate, input) ==
    SelectSeq(<<"keywords", "tone", "urgency", "benefit_level", "high_performance">>,
              LAMBDA rule :
                 CASE rule = "keywords" ->
                        {features.keywords[i] : i \in 1..Len(features.keywords)}
                           \cap {Get(input, "keywords", <<>>)[i] :
                                    i \in 1..Len(Get(input, "keywords", <<>>))} # {}
                   [] rule = "tone" -> Get(input, "tone", "None") = features.tone
                   [] rule = "urgency" -> Get(input, "urgency", "none") = features.urgency_level
                   [] rule = "benefit_level" ->
                        Get(input, "benefit_level", "none") = features.benefit_level
                   [] rule = "high_performance" -> click_rate > 10 * RateScale)

\* C22: the reasons of every record find_matching_messages returns name the
\* scoring rules that fired for it, each once and in the order of the rules.
C22_ReasonsNameFiredRules ==
    returned.call = "find_matching_messages" =>
        \A i \in 1..Len(returned.result) :
            [j \in 1..Len(returned.result[i].reasons) |-> RuleOf(returned.result[i].reasons[j])]
               = FiredRules(extract_message_features(returned.result[i].message),
                            returned.result[i].click_rate, user_input)

\* the rows of an upload whose processing does not fail
AcceptedIndexes(csv) ==
    {i \in 1..Len(csv.rows) : process_row(normalize_fields(csv.rows[i]), csv.now).ok}

\* the k-th of them
NthAccepted(csv, k) ==
    CHOOSE i \in AcceptedIndexes(csv) : Cardinality({j \in AcceptedIndexes(csv) : j <= i}) = k

C24_AggregatesSorted ==
    analysis_complete =>
        \A g \in 1..(Len(aggregated_high_performance) - 1) :
            aggregated_high_performance[g].total_click_rate
               >= aggregated_high_performance[g + 1].total_click_rate

\* the text of the best record is not the first aggregate: the sort moved it
C24_Witness ==
    /\ analysis_complete
    /\ lastOp = "upload"
    /\ Len(aggregated_high_performance) >= 2
    /\ aggregated_high_performance[1].message # Strip(high_performance_messages[1].messageText)
    /\ aggregated_high_performance[1].total_click_rate
          > aggregated_high_performance[2].total_click_rate

\* the stored records of a weekday
RowsOn(day) == SelectSeq(data, LAMBDA row : row.weekday = <<day>>)

\* C25: after a successful upload the per-weekday map, and the one the
\* dashboard answers with, have exactly the seven weekday keys, and a weekday
\* without records has count 0 and average 0.
C25_SevenWeekdays ==
    /\ analysis_complete =>
          /\ DOMAIN performance_patterns.time_analysis = {weekdays[i] : i \in 1..7}
          /\ \A day \in DOMAIN performance_patterns.time_analysis :
                RowsOn(day) = <<>> =>
                   /\ performance_patterns.time_analysis[day].count = 0
                   /\ performance_patterns.time_analysis[day].avg_click_rate.num = 0
    /\ (response.kind = "dashboard" /\ response.body.success) =>
          DOMAIN response.body.data.time_analysis = {weekdays[i] : i \in 1..7}

\* the dashboard answered after an upload with records on some weekdays only
C25_Witness ==
    /\ analysis_complete
    /\ response.kind = "dashboard"
    /\ response.body.success
    /\ \E day \in DOMAIN response.body.data.time_analysis :
          RowsOn(day) = <<>> /\ response.body.data.time_analysis[day].count = 0
    /\ \E day \in DOMAIN response.body.data.time_analysis :
          response.body.data.time_analysis[day].count = Len(RowsOn(day)) /\ RowsOn(day) # <<>>

\* the aliases of a field that are keys of the row, by their place in the list
PresentAliases(field) ==
    {i \in 1..Len(field_mappings[field]) : field_mappings[field][i] \in DOMAIN csv_row}

\* the default the documentation names for a field: '0', the sentinel text, the
\* sentinel service, '' otherwise (for the date, the empty cell)
DocumentedDefault(field) ==
    CASE field = "clickRate" -> <<"0">>
      [] field = "messageText" -> <<"default_text">>
      [] field = "service" -> <<"other">>
      [] field = "sentDate" -> EmptyDate
      [] OTHER -> <<>>

\* C26: normalize_fields returns a row with the seven canonical fields; each
\* holds the cell of the first alias, in list order, that is a key of the raw
\* row, and the documented default when no alias is.
C26_NormalizeComplete ==
    returned.call = "normalize_fields" =>
        /\ DOMAIN returned.result = {"clickRate", "messageText", "service", "sentDate",
                                     "weekday", "sentCount", "clickCount"}
        /\ \A field \in DOMAIN returned.result :
              IF PresentAliases(field) = {}
              THEN returned.result[field] = DocumentedDefault(field)
              ELSE \E i \in PresentAliases(field) :
                      /\ \A j \in PresentAliases(field) : i <= j
                      /\ returned.result[field] = csv_row[field_mappings[field][i]]

\* two click rate aliases, the first with an empty cell, and no text column
C26_Witness ==
    /\ returned.call = "normalize_fields"
    /\ {"ko_clickRate", "CTR"} \subseteq DOMAIN csv_row
    /\ returned.result.clickRate = <<>>
    /\ PresentAliases("messageText") = {}
    /\ returned.result.messageText = <<"default_text">>

\* C27: between operations analysis_complete tells whether the most recent
\* analyze_uploaded_csv call returned success (it is false before the first
\* call, each call sets it to its result, no other handler changes it), and
\* while it is true the records are not empty and the dashboard reports their
\* number as total_messages.
C27_CompleteIffLastSucceeded ==
    /\ ~analysis_complete
    /\ [][/\ lastOp' = "upload" => analysis_complete' = response'.body.success
          /\ lastOp' # "upload" => analysis_complete' = analysis_complete]_vars
    /\ [](analysis_complete =>
             /\ data # <<>>
             /\ Snapshot.success
             /\ Snapshot.data.summary.total_messages = Len(data))

\* an upload failed after one that succeeded, and the dashboard was asked
C27_Witness ==
    /\ everSucceeded
    /\ ~analysis_complete
    /\ lastCsv.rows # <<>>
    /\ lastOp = "dashboard"
    /\ response.body = IngestFirst

\* C28: after a successful upload the aggregated duplicates partition the
\* high-performance set: every text of the set is the message of exactly one
\* aggregate, the send_counts add up to the size of the set, and every
\* occurrence of an aggregate is a record of the set.
C28_AggregatesPartition ==
    analysis_complete =>
        /\ \A i \in 1..Len(high_performance_messages) :
              Cardinality({g \in 1..Len(aggregated_high_performance) :
                              aggregated_high_performance[g].message
                                 = high_performance_messages[i].messageText}) = 1
        /\ SumSeq([g \in 1..Len(aggregated_high_performance) |->
                      aggregated_high_performance[g].send_count])
              = Len(high_performance_messages)
        /\ \A g \in 1..Len(aggregated_high_performance) :
              \A o \in 1..Len(aggregated_high_performance[g].occurrences) :
                 \E i \in 1..Len(high_performance_messages) :
                    high_performance_messages[i] = aggregated_high_performance[g].occurrences[o]

\* C29: the sum predict_performance clamps lies between 5.5 and 16.5 for every
\* text, so the clamp changes nothing and the result is never 3.0 or 20.0.
C29_ClampIdle ==
    returned.call = "predict_performance" =>
        /\ FormulaSum(candidate_text) >= 55
        /\ FormulaSum(candidate_text) <= 165
        /\ returned.result.predicted_click_rate
              = base_score + returned.result.factors.keywords + returned.result.factors.emoji
                  + returned.result.factors.length + returned.result.factors.urgency
        /\ returned.result.predicted_click_rate \notin {30, 200}

\* the highest sum: three bonus keywords, 30 to 50 characters, high urgency
C29_Witness ==
    /\ returned.call = "predict_performance"
    /\ BonusCount(candidate_text) = 3
    /\ calculate_urgency_level(candidate_text) = "high"
    /\ returned.result.predicted_click_rate = 165

\* C30: in every aggregate built from records with non-negative sent counts,
\* total_click_rate is at most max_click_rate, and total_click_rate is 0 when
\* the aggregate's total sent count is 0.
C30_TotalAtMostMax ==
    \A g \in 1..Len(aggregated_high_performance) :
        (\A o \in 1..Len(aggregated_high_performance[g].occurrences) :
            aggregated_high_performance[g].occurrences[o].sentCount >= 0)
        => /\ aggregated_high_performance[g].total_click_rate
                <= aggregated_high_performance[g].max_click_rate
           /\ aggregated_high_performance[g].total_sends = 0
                => aggregated_high_performance[g].total_click_rate = 0

====
